---- MODULE Spec2Model ----
(***************************************************************************)
(* Model of the core-worker in-memory object store                         *)
(* (CoreWorkerMemoryStore and GetRequest) of                               *)
(* src/ray/core_worker/transport/direct_task_transport.cc.                 *)
(*                                                                         *)
(* Every call of a store operation is one thread.  A section of code that  *)
(* runs under the store mutex mu_ is one atomic action; what the code does *)
(* after it released the mutex (running callbacks, waiting on the          *)
(* condition variable of a GetRequest) are further actions of the thread.  *)
(***************************************************************************)
EXTENDS Integers, Sequences, FiniteSets, TLC

\* ------------------------------------------------------------------ bounds

\* Number of store calls (threads) of a run of Spec, whose calls range over
\* two ids.
NThreads == 3

Threads == 1..NThreads

\* Number of store calls (threads) of a run of SpecOneId, whose calls are
\* all about the one id A.
NOneIdThreads == 4

OneIdThreads == 1..NOneIdThreads

\* ------------------------------------------------------------ object ids

DIRECT == "DIRECT_CALL"
RAYLET == "RAYLET"

\* ObjectID: the id bits and the transport bit.
ObjectID(name, transport) == [name |-> name, transport |-> transport]

IsDirectCallType(id) == id.transport = DIRECT

\* ObjectID::WithTransportType: rewrites the transport bit, keeps the others.
WithTransportType(id, transport) == [id EXCEPT !.transport = transport]

A == ObjectID("A", DIRECT)
B == ObjectID("B", DIRECT)

\* The ids the calls are made with.
Ids == {A, B}

\* ------------------------------------------------------------ RayObject

None == "none"

\* ObjectID::Nil(): the id of a thread whose call takes none.
NilID == [name |-> "nil", transport |-> "nil"]

OBJECT_IN_PLASMA == "OBJECT_IN_PLASMA"

\* RayObject: data and metadata buffers.
RayObject(data, metadata) == [data |-> data, metadata |-> metadata]

\* The data a caller puts names its Put: the number of the thread and the
\* name of the id it puts under, so that every Put has its own value.
PutData(t, object_id) == <<t, object_id.name>>

IsInPlasmaError(obj) == obj.metadata = OBJECT_IN_PLASMA

\* A null std::shared_ptr<RayObject>.  No RayObject has the data of thread 0.
nullptr == [data |-> <<0, "">>, metadata |-> None]

\* ------------------------------------------------------- maps (hash maps)

\* A hash map is a function whose domain is the set of keys present.
MapErase(m, k) == [x \in (DOMAIN m) \ {k} |-> m[x]]

MapEraseAll(m, ks) == [x \in (DOMAIN m) \ ks |-> m[x]]

MapSet(m, k, v) == [x \in (DOMAIN m) \cup {k} |-> IF x = k THEN v ELSE m[x]]

\* map.emplace(k, v): inserts only when k is not yet a key.
MapEmplace(m, k, v) == IF k \in DOMAIN m THEN m ELSE MapSet(m, k, v)

EmptyMap == <<>>

\* The value under k, or a default when k is not a key (map.find).
MapGet(m, k, default) == IF k \in DOMAIN m THEN m[k] ELSE default

SeqToSet(s) == {s[i] : i \in 1..Len(s)}

\* vector.erase(std::find(v, x)): removes the first occurrence of x.
RECURSIVE EraseFirst(_, _)
EraseFirst(s, x) ==
  IF s = <<>> THEN <<>>
  ELSE IF Head(s) = x THEN Tail(s)
  ELSE <<Head(s)>> \o EraseFirst(Tail(s), x)

\* ------------------------------------------------------------------ tasks

\* Number of tasks submitted in a run of SpecDTS.
NTasks == 3

TaskIds == 1..NTasks

\* The names of the return ids of the tasks: task 1 returns two objects, the
\* others one.
TaskReturnNames == <<<<"R11", "R12">>, <<"R21">>, <<"R31">>, <<"R41">>>>

\* TaskSpecification::NumReturns.
NumReturns(task) == Len(TaskReturnNames[task])

\* ObjectID::ForTaskReturn(task_id, i, DIRECT): the id of the i-th object a
\* task returns.
ForTaskReturn(task, i) == ObjectID(TaskReturnNames[task][i], DIRECT)

\* A buffer that holds no bytes (a null data or metadata pointer is None).
NoData == <<0, "">>

\* One argument of a task message: the ids it references, or its inlined
\* bytes.
Arg(object_ids, data, metadata) ==
  [object_ids |-> object_ids, data |-> data, metadata |-> metadata]

\* The arguments of the tasks that are submitted.  Task 1 takes a value;
\* task 2 takes the two objects task 1 returns; the other tasks take an
\* object of the raylet transport, which is no dependency to resolve.
TaskArgs(task) ==
  IF task = 1 THEN <<Arg(<<>>, <<9, "v">>, None)>>
  ELSE IF task = 2 THEN <<Arg(<<ForTaskReturn(1, 1)>>, NoData, None),
                          Arg(<<ForTaskReturn(1, 2)>>, NoData, None)>>
  ELSE <<Arg(<<ObjectID("P", RAYLET)>>, NoData, None)>>

\* The message of a task after its content was swapped into a push request.
EmptyMessage == <<>>

\* WorkerAddress: host and port.
WorkerAddress(host, port) == [host |-> host, port |-> port]

\* The workers the lease service grants.
Workers == {WorkerAddress("h", 1), WorkerAddress("h", 2)}

\* rpc::ErrorType::WORKER_DIED, as the metadata of an error object.
WORKER_DIED == "WORKER_DIED"

\* The threads that run submitter code: the caller of SubmitTask for a task,
\* the thread a lease grant arrives on, the thread the reply of a push
\* arrives on.
NoThread == [kind |-> "none", n |-> 0]

SubmitThread(task) == [kind |-> "submit", n |-> task]

GrantThread(n) == [kind |-> "grant", n |-> n]

ReplyThread(i) == [kind |-> "reply", n |-> i]


\* ------------------------------------------------------------------ state

VARIABLES
  objects_,                    \* CoreWorkerMemoryStore::objects_
  object_async_get_requests_,  \* id -> callbacks waiting for it, in order
  object_get_requests_,        \* id -> the GetRequests registered under it
  promoted_to_plasma_,         \* ids to forward to plasma at their next Put
  store_in_plasma_,            \* TRUE: a provider callback is set, FALSE: null
  get_request,                 \* the live GetRequest of each blocked Get thread
  th,                          \* each thread: its call, its position, its locals
  cb_log,                      \* the async-get callbacks invoked so far, in order
  plasma_log,                  \* the store_in_plasma_ calls made so far, in order
  aborted,                     \* a RAY_CHECK failed: the process is gone
  \* CoreWorkerDirectTaskSubmitter and LocalDependencyResolver
  queued_tasks_,               \* the tasks that wait for a worker, in order
  worker_request_pending_,     \* a lease request is outstanding
  client_cache_,               \* the worker addresses that have a client
  task_message,                \* task -> the message its copies share (its args)
  task_state,                  \* task -> the TaskState of its resolution
  mu_holder,                   \* the thread that holds the submitter's mu_
  dth,                         \* the threads that run submitter code
  lease_log,                   \* the calls of the lease client, in order
  push_log,                    \* the calls of client.PushNormalTask, in order
  push_replied,                \* the pushes whose reply callback was invoked
  queue_log                    \* the tasks pushed on queued_tasks_, in order

storeVars == <<objects_, object_async_get_requests_, object_get_requests_,
               promoted_to_plasma_, store_in_plasma_>>

\* The variables of the task submitter and its resolver.
dtsVars == <<queued_tasks_, worker_request_pending_, client_cache_,
             task_message, task_state, mu_holder, dth, lease_log, push_log,
             push_replied, queue_log>>

vars == <<objects_, object_async_get_requests_, object_get_requests_,
          promoted_to_plasma_, store_in_plasma_, get_request, th, cb_log,
          plasma_log, aborted, dtsVars>>

\* A thread that has not made its call yet.
IdleThread ==
  [pc |-> "idle", op |-> None, id |-> NilID, ids |-> <<>>, num |-> 0,
   timeout |-> 0, remove |-> FALSE, object |-> nullptr, results |-> <<>>,
   status |-> None, done |-> FALSE, async_callbacks |-> <<>>,
   drained |-> <<>>, ptr |-> nullptr]

\* A thread whose call has returned and whose locals are gone.
FinishedThread == [IdleThread EXCEPT !.pc = "finished"]

\* Threads make their calls in the order of their numbers (they are
\* interchangeable, so this loses no behaviour).
CanStart(t) ==
  /\ ~aborted
  /\ th[t].pc = "idle"
  /\ IF t = 1 THEN TRUE ELSE th[t - 1].pc # "idle"

\* The submitter and its resolver after construction, for the tasks that
\* will be submitted: nothing is queued, requested or leased.
InitSubmitter(tasks) ==
  /\ queued_tasks_ = <<>>
  /\ worker_request_pending_ = FALSE
  /\ client_cache_ = {}
  /\ task_message = [task \in tasks |-> TaskArgs(task)]
  /\ task_state = EmptyMap
  /\ mu_holder = NoThread
  /\ dth = EmptyMap
  /\ lease_log = <<>>
  /\ push_log = <<>>
  /\ push_replied = {}
  /\ queue_log = <<>>

Init ==
  /\ objects_ = EmptyMap
  /\ object_async_get_requests_ = EmptyMap
  /\ object_get_requests_ = EmptyMap
  /\ promoted_to_plasma_ = {}
  /\ store_in_plasma_ = TRUE
  /\ get_request = EmptyMap
  /\ th = [t \in Threads |-> IdleThread]
  /\ cb_log = <<>>
  /\ plasma_log = <<>>
  /\ aborted = FALSE
  /\ InitSubmitter({})

\* ------------------------------------------------------------ GetRequest

\* GetRequest::GetRequest; the RAY_CHECK of the constructor is
\* GetRequestCheck.
GetRequest(object_ids, num_objects, remove_after_get) ==
  [object_ids_ |-> object_ids, objects_ |-> EmptyMap,
   num_objects_ |-> num_objects, remove_after_get_ |-> remove_after_get,
   is_ready_ |-> FALSE]

GetRequestCheck(object_ids, num_objects) ==
  num_objects <= Cardinality(object_ids)

\* GetRequestSet as a bug would have it: the object is recorded also when the
\* request is ready already.
GetRequestSetWhenReady(r, object_id, object) ==
  LET objs == MapEmplace(r.objects_, object_id, object)
  IN  [r EXCEPT !.objects_ = objs,
                !.is_ready_ = (@ \/ Cardinality(DOMAIN objs) = r.num_objects_)]

\* GetRequest::Set.
GetRequestSet(r, object_id, object) ==
  IF r.is_ready_ THEN r
  ELSE LET objs == MapEmplace(r.objects_, object_id, object)
       IN  [r EXCEPT !.objects_ = objs,
                     !.is_ready_ = (Cardinality(DOMAIN objs) = r.num_objects_)]

\* GetRequest::Get.
GetRequestGet(r, object_id) ==
  IF object_id \in DOMAIN r.objects_ THEN r.objects_[object_id] ELSE nullptr

\* ------------------------------------------------ CoreWorkerMemoryStore

\* One invocation of an async-get callback, as the log records it: the
\* callback (the thread that passed it to GetAsync), the object it is given,
\* and whether the store mutex was held by the caller.
CallbackCall(cb, object, locked) == [cb |-> cb, obj |-> object, locked |-> locked]

\* One call of store_in_plasma_.
PlasmaCall(object, id, locked) == [obj |-> object, id |-> id, locked |-> locked]

\* PutAsyncCallbacks as a bug would have it: the callbacks are taken in the
\* reverse order.
RECURSIVE Reverse(_)
Reverse(s) == IF s = <<>> THEN <<>> ELSE Append(Reverse(Tail(s)), Head(s))

PutAsyncCallbacksReversed(object_id) ==
  Reverse(MapGet(object_async_get_requests_, object_id, <<>>))

\* Put, lines 325-330: the callbacks of object_async_get_requests_[id] are
\* moved to the local async_callbacks.
PutAsyncCallbacks(object_id) ==
  MapGet(object_async_get_requests_, object_id, <<>>)

\* PutAsyncErased as a bug would have it: the entry of the id stays in the
\* map.
PutAsyncKept(object_id) == object_async_get_requests_

\* Put, line 329: the entry of the id is erased from
\* object_async_get_requests_.
PutAsyncErased(object_id) == MapErase(object_async_get_requests_, object_id)

\* PutObjectExists as a bug would have it: the test is skipped for an id
\* that has GetRequests registered.
PutObjectExistsUnlessAwaited(object_id) ==
  object_id \in DOMAIN objects_ /\ object_id \notin DOMAIN object_get_requests_

\* Put, lines 320-323: the id is already in objects_.
PutObjectExists(object_id) == object_id \in DOMAIN objects_

\* Put, lines 332-337: the id is in promoted_to_plasma_, and the set once it
\* is erased from it.
PutPromoted(object_id) == object_id \in promoted_to_plasma_

\* PutPromotedErased as a bug would have it: the id stays in the set.
PutPromotedKept(object_id) == promoted_to_plasma_

PutPromotedErased(object_id) == promoted_to_plasma_ \ {object_id}

\* Put, lines 339-349: every request registered under the id is Set, in one
\* pass over the vector.
PutSetRequests(object_id, object_entry) ==
  LET registered == SeqToSet(MapGet(object_get_requests_, object_id, <<>>))
  IN  [r \in DOMAIN get_request |->
         IF r \in registered
         THEN GetRequestSet(get_request[r], object_id, object_entry)
         ELSE get_request[r]]

\* PutShouldAddEntry as a bug would have it: the object is always stored.
PutShouldAddEntryAlways(object_id) == TRUE

\* Put, lines 339-349: should_add_entry stays true unless a request registered
\* under the id asks for remove_after_get.
PutShouldAddEntry(object_id) ==
  \A r \in SeqToSet(MapGet(object_get_requests_, object_id, <<>>)) :
     ~get_request[r].remove_after_get_

\* Put, lines 312-355: up to the release of mu_.
PutLocked(t, object_id_inputs, metadata_inputs) ==
  \E object_id \in object_id_inputs, metadata \in metadata_inputs :
    LET object == RayObject(PutData(t, object_id), metadata)
        object_entry == RayObject(object.data, object.metadata)
        call == [th[t] EXCEPT !.op = "Put", !.id = object_id,
                              !.object = object_entry]
        promoted == PutPromoted(object_id)
    IN
    /\ CanStart(t)
    /\ IF ~IsDirectCallType(object_id)
       THEN \* RAY_CHECK(object_id.IsDirectCallType())
            /\ aborted' = TRUE
            /\ th' = [th EXCEPT ![t] = [call EXCEPT !.pc = "aborted"]]
            /\ UNCHANGED <<storeVars, get_request, cb_log, plasma_log>>
       ELSE IF PutObjectExists(object_id)
       THEN /\ th' = [th EXCEPT ![t] = [call EXCEPT !.pc = "done",
                                                   !.status = "ObjectExists"]]
            /\ UNCHANGED <<storeVars, get_request, cb_log, plasma_log, aborted>>
       ELSE IF promoted /\ ~store_in_plasma_
       THEN \* RAY_CHECK(store_in_plasma_ != nullptr)
            /\ aborted' = TRUE
            /\ th' = [th EXCEPT ![t] = [call EXCEPT !.pc = "aborted"]]
            /\ object_async_get_requests_' = PutAsyncErased(object_id)
            /\ UNCHANGED <<objects_, object_get_requests_, promoted_to_plasma_,
                           store_in_plasma_, get_request, cb_log, plasma_log>>
       ELSE /\ object_async_get_requests_' = PutAsyncErased(object_id)
            /\ plasma_log' =
                 IF promoted
                 THEN Append(plasma_log,
                             PlasmaCall(object,
                                        WithTransportType(object_id, RAYLET),
                                        TRUE))
                 ELSE plasma_log
            /\ promoted_to_plasma_' = PutPromotedErased(object_id)
            /\ get_request' = PutSetRequests(object_id, object_entry)
            /\ objects_' = IF PutShouldAddEntry(object_id)
                           THEN MapEmplace(objects_, object_id, object_entry)
                           ELSE objects_
            /\ th' = [th EXCEPT ![t] =
                        [call EXCEPT !.pc = "put_callbacks",
                                     !.async_callbacks = PutAsyncCallbacks(object_id),
                                     !.drained =
                                        MapGet(object_async_get_requests_,
                                               object_id, <<>>)]]
            /\ UNCHANGED <<object_get_requests_, store_in_plasma_, cb_log, aborted>>
    /\ UNCHANGED dtsVars

\* Put, lines 357-360: the next callback of the local list, mu_ released.
PutCallback(t) ==
  /\ ~aborted
  /\ th[t].pc = "put_callbacks"
  /\ th[t].async_callbacks # <<>>
  /\ cb_log' = Append(cb_log,
                      CallbackCall(Head(th[t].async_callbacks), th[t].object, FALSE))
  /\ th' = [th EXCEPT ![t].async_callbacks = Tail(@)]
  /\ UNCHANGED <<storeVars, get_request, plasma_log, aborted>>
  /\ UNCHANGED dtsVars

\* Put, line 362.
PutReturn(t) ==
  /\ ~aborted
  /\ th[t].pc = "put_callbacks"
  /\ th[t].async_callbacks = <<>>
  /\ th' = [th EXCEPT ![t].pc = "done", ![t].status = "OK"]
  /\ UNCHANGED <<storeVars, get_request, cb_log, plasma_log, aborted>>
  /\ UNCHANGED dtsVars

\* GetAsync, lines 282-284: the object found, or a null pointer.
GetAsyncPtr(object_id) == MapGet(objects_, object_id, nullptr)

\* GetAsyncWaiters as a bug would have it: the callback joins the waiters
\* also when the object was found.
GetAsyncWaitersAlways(t, object_id) ==
  MapSet(object_async_get_requests_, object_id,
         Append(MapGet(object_async_get_requests_, object_id, <<>>), t))

\* GetAsync, lines 285-287: the callback of thread t joins the waiters of an
\* id that is not in objects_.
GetAsyncWaiters(t, object_id) ==
  IF object_id \in DOMAIN objects_
  THEN object_async_get_requests_
  ELSE MapSet(object_async_get_requests_, object_id,
              Append(MapGet(object_async_get_requests_, object_id, <<>>), t))

\* GetAsync, lines 279-288: up to the release of mu_.
GetAsyncLocked(t, object_id_inputs) ==
  \E object_id \in object_id_inputs :
    LET call == [th[t] EXCEPT !.op = "GetAsync", !.id = object_id]
    IN
    /\ CanStart(t)
    /\ object_async_get_requests_' = GetAsyncWaiters(t, object_id)
    /\ th' = [th EXCEPT ![t] =
                [call EXCEPT !.ptr = GetAsyncPtr(object_id),
                             !.pc = IF GetAsyncPtr(object_id) # nullptr
                                    THEN "async_callback"
                                    ELSE "done"]]
    /\ UNCHANGED <<objects_, object_get_requests_, promoted_to_plasma_,
                   store_in_plasma_, get_request, cb_log, plasma_log, aborted>>
    /\ UNCHANGED dtsVars

\* GetAsync, lines 289-292: the callback runs outside the lock.
GetAsyncCallback(t) ==
  /\ ~aborted
  /\ th[t].pc = "async_callback"
  /\ cb_log' = Append(cb_log, CallbackCall(t, th[t].ptr, FALSE))
  /\ th' = [th EXCEPT ![t].pc = "done"]
  /\ UNCHANGED <<storeVars, get_request, plasma_log, aborted>>
  /\ UNCHANGED dtsVars

\* The timeouts Get is called with (-1 waits forever) and, for a list of
\* ids, the numbers of objects the caller may ask for
\* (1 <= num_objects <= |unique(ids)|).
Timeouts == {-1, 50}

NumObjects(object_ids) == 1..Cardinality(SeqToSet(object_ids))

\* size_t arithmetic wraps.  size_t is 64 bits wide; the model wraps at 2^30,
\* which like 2^64 is larger than the size of every container of the model.
SizeT(n) == n % (2^30)

\* GetScanFound as a bug would have it: an id found earlier in the walk is
\* erased at once, so that a second occurrence of it is not found.
GetScanFoundUnlessErased(object_id, acc) ==
  object_id \in DOMAIN objects_ /\ object_id \notin acc.ids_to_remove

\* Get, lines 382-383: objects_.find(object_id) during the walk; the ids
\* recorded in ids_to_remove are still in objects_.
GetScanFound(object_id, acc) == object_id \in DOMAIN objects_

\* Get, lines 380-394: the walk over object_ids under the lock.  acc holds
\* results, count, ids_to_remove and remaining_ids.
RECURSIVE GetScan(_, _, _, _, _)
GetScan(object_ids, num_objects, remove_after_get, i, acc) ==
  IF ~(i <= Len(object_ids) /\ acc.count < num_objects) THEN acc
  ELSE LET object_id == object_ids[i]
       IN  IF GetScanFound(object_id, acc)
           THEN GetScan(object_ids, num_objects, remove_after_get, i + 1,
                  [acc EXCEPT !.results[i] = objects_[object_id],
                              !.ids_to_remove =
                                 IF remove_after_get THEN @ \cup {object_id} ELSE @,
                              !.count = @ + 1])
           ELSE GetScan(object_ids, num_objects, remove_after_get, i + 1,
                  [acc EXCEPT !.remaining_ids = @ \cup {object_id}])

\* Get, line 406: the number of objects the GetRequest has to collect.
GetRequiredObjects(object_ids, num_objects, remaining_ids) ==
  SizeT(num_objects - (Len(object_ids) - Cardinality(remaining_ids)))

\* Get, lines 411-413: the request of thread t is pushed on the vector of
\* every id it waits for.
GetRegister(t, remaining_ids) ==
  [x \in (DOMAIN object_get_requests_) \cup remaining_ids |->
     IF x \in remaining_ids
     THEN Append(MapGet(object_get_requests_, x, <<>>), t)
     ELSE object_get_requests_[x]]

\* Get, lines 369-414: up to the first release of mu_.
GetLocked(t, object_ids_inputs) ==
  \E object_ids \in object_ids_inputs, timeout_ms \in Timeouts, remove_after_get \in BOOLEAN :
   \E num_objects \in NumObjects(object_ids) :
    LET scan == GetScan(object_ids, num_objects, remove_after_get, 1,
                        [results |-> [i \in 1..Len(object_ids) |-> nullptr],
                         count |-> 0, ids_to_remove |-> {}, remaining_ids |-> {}])
        call == [th[t] EXCEPT !.op = "Get", !.ids = object_ids,
                              !.num = num_objects, !.timeout = timeout_ms,
                              !.remove = remove_after_get,
                              !.results = scan.results]
        required_objects ==
          GetRequiredObjects(object_ids, num_objects, scan.remaining_ids)
    IN
    /\ CanStart(t)
    /\ objects_' = MapEraseAll(objects_, scan.ids_to_remove)
    /\ IF scan.remaining_ids = {} \/ scan.count >= num_objects
       THEN /\ th' = [th EXCEPT ![t] = [call EXCEPT !.pc = "done", !.status = "OK"]]
            /\ UNCHANGED <<object_get_requests_, get_request, aborted>>
       ELSE IF ~GetRequestCheck(scan.remaining_ids, required_objects)
       THEN \* RAY_CHECK(num_objects_ <= object_ids_.size())
            /\ aborted' = TRUE
            /\ th' = [th EXCEPT ![t] = [call EXCEPT !.pc = "aborted"]]
            /\ UNCHANGED <<object_get_requests_, get_request>>
       ELSE /\ get_request' =
                 MapSet(get_request, t,
                        GetRequest(scan.remaining_ids, required_objects,
                                   remove_after_get))
            /\ object_get_requests_' = GetRegister(t, scan.remaining_ids)
            /\ th' = [th EXCEPT ![t] = [call EXCEPT !.pc = "wait"]]
            /\ UNCHANGED aborted
    /\ UNCHANGED <<object_async_get_requests_, promoted_to_plasma_,
                   store_in_plasma_, cb_log, plasma_log>>
    /\ UNCHANGED dtsVars

\* GetRequest::Wait, lines 225-249: the first test of is_ready_, under the
\* mutex of the request.  A request that is not ready blocks on cv_.
GetWait(t) ==
  /\ ~aborted
  /\ th[t].pc = "wait"
  /\ IF ~(th[t].timeout >= 0 \/ th[t].timeout = -1)
     THEN \* RAY_CHECK(timeout_ms >= 0 || timeout_ms == -1)
          /\ aborted' = TRUE
          /\ th' = [th EXCEPT ![t].pc = "aborted"]
     ELSE /\ th' = IF get_request[t].is_ready_
                   THEN [th EXCEPT ![t].pc = "populate", ![t].done = TRUE]
                   ELSE [th EXCEPT ![t].pc = "blocked"]
          /\ UNCHANGED aborted
  /\ UNCHANGED <<storeVars, get_request, cb_log, plasma_log>>
  /\ UNCHANGED dtsVars

\* GetRequest::Wait: cv_.wait / cv_.wait_for returns without a timeout and
\* the loop finds is_ready_ set (a wake-up that finds it clear blocks again).
GetWake(t) ==
  /\ ~aborted
  /\ th[t].pc = "blocked"
  /\ get_request[t].is_ready_
  /\ th' = [th EXCEPT ![t].pc = "populate", ![t].done = TRUE]
  /\ UNCHANGED <<storeVars, get_request, cb_log, plasma_log, aborted>>
  /\ UNCHANGED dtsVars

\* GetRequest::Wait, lines 236-239: cv_.wait_for returns cv_status::timeout.
\* It does so whenever the time is over when the thread has the mutex again,
\* also when the request was made ready and notified just before.
GetTimeout(t) ==
  /\ ~aborted
  /\ th[t].pc = "blocked"
  /\ th[t].timeout # -1
  /\ th' = [th EXCEPT ![t].pc = "populate", ![t].done = FALSE]
  /\ UNCHANGED <<storeVars, get_request, cb_log, plasma_log, aborted>>
  /\ UNCHANGED dtsVars

\* GetPopulate as a bug would have it: an empty position is filled with
\* whatever object the request holds.
GetPopulateAny(object_ids, results, r) ==
  [i \in 1..Len(object_ids) |->
     IF results[i] = nullptr /\ DOMAIN r.objects_ # {}
     THEN r.objects_[CHOOSE x \in DOMAIN r.objects_ : TRUE]
     ELSE results[i]]

\* Get, lines 422-427: the empty positions are filled from the request.
GetPopulate(object_ids, results, r) ==
  [i \in 1..Len(object_ids) |->
     IF results[i] = nullptr THEN GetRequestGet(r, object_ids[i]) ELSE results[i]]

\* GetDeregister as a bug would have it: a vector left empty stays in the
\* map.
GetDeregisterKeepEmpty(t, r) ==
  [x \in DOMAIN object_get_requests_ |->
     IF x \in r.object_ids_
     THEN EraseFirst(object_get_requests_[x], t)
     ELSE object_get_requests_[x]]

\* Get, lines 430-444: the request of thread t is erased from the vector of
\* every id it waited for, and a vector left empty is erased from the map.
GetDeregister(t, r) ==
  LET erased == [x \in DOMAIN object_get_requests_ |->
                   IF x \in r.object_ids_
                   THEN EraseFirst(object_get_requests_[x], t)
                   ELSE object_get_requests_[x]]
      emptied == {x \in DOMAIN erased :
                    /\ x \in r.object_ids_
                    /\ t \in SeqToSet(object_get_requests_[x])
                    /\ erased[x] = <<>>}
  IN  MapEraseAll(erased, emptied)

\* Get, lines 419-451: the second section under mu_, and the return.
GetFinish(t) ==
  /\ ~aborted
  /\ th[t].pc = "populate"
  /\ object_get_requests_' = GetDeregister(t, get_request[t])
  /\ get_request' = MapErase(get_request, t)
  /\ th' = [th EXCEPT ![t].pc = "done",
                      ![t].results = GetPopulate(th[t].ids, th[t].results,
                                                 get_request[t]),
                      ![t].status = IF th[t].done THEN "OK" ELSE "TimedOut"]
  /\ UNCHANGED <<objects_, object_async_get_requests_, promoted_to_plasma_,
                 store_in_plasma_, cb_log, plasma_log, aborted>>
  /\ UNCHANGED dtsVars

\* Delete, lines 454-459.
Delete(t, object_ids_inputs) ==
  \E object_ids \in object_ids_inputs :
    /\ CanStart(t)
    /\ objects_' = MapEraseAll(objects_, SeqToSet(object_ids))
    /\ th' = [th EXCEPT ![t] = [@ EXCEPT !.op = "Delete", !.ids = object_ids,
                                         !.pc = "done"]]
    /\ UNCHANGED <<object_async_get_requests_, object_get_requests_,
                   promoted_to_plasma_, store_in_plasma_, get_request, cb_log,
                   plasma_log, aborted>>
    /\ UNCHANGED dtsVars

\* GetOrPromoteToPlasmaInserted as a bug would have it: the id of an object
\* that is an OBJECT_IN_PLASMA marker is promoted as well.
GetOrPromoteToPlasmaInsertedIfMarker(object_id) ==
  IF object_id \in DOMAIN objects_ /\ ~IsInPlasmaError(objects_[object_id])
  THEN promoted_to_plasma_
  ELSE promoted_to_plasma_ \cup {object_id}

\* GetOrPromoteToPlasma, lines 298-308: promoted_to_plasma_ when the call
\* returns; the id is inserted only when it is not in objects_.
GetOrPromoteToPlasmaInserted(object_id) ==
  IF object_id \in DOMAIN objects_
  THEN promoted_to_plasma_
  ELSE promoted_to_plasma_ \cup {object_id}

\* GetOrPromoteToPlasma, lines 295-310.  ptr is what the call returns.
GetOrPromoteToPlasma(t, object_id_inputs) ==
  \E object_id \in object_id_inputs :
    LET call == [th[t] EXCEPT !.op = "GetOrPromoteToPlasma", !.id = object_id]
    IN
    /\ CanStart(t)
    /\ IF object_id \in DOMAIN objects_
       THEN /\ th' = [th EXCEPT ![t] =
                        [call EXCEPT !.pc = "done",
                                     !.ptr = IF IsInPlasmaError(objects_[object_id])
                                             THEN nullptr
                                             ELSE objects_[object_id]]]
            /\ promoted_to_plasma_' = GetOrPromoteToPlasmaInserted(object_id)
            /\ UNCHANGED aborted
       ELSE IF ~store_in_plasma_
       THEN \* RAY_CHECK(store_in_plasma_ != nullptr)
            /\ aborted' = TRUE
            /\ th' = [th EXCEPT ![t] = [call EXCEPT !.pc = "aborted"]]
            /\ UNCHANGED promoted_to_plasma_
       ELSE /\ promoted_to_plasma_' = GetOrPromoteToPlasmaInserted(object_id)
            /\ th' = [th EXCEPT ![t] = [call EXCEPT !.pc = "done"]]
            /\ UNCHANGED aborted
    /\ UNCHANGED <<objects_, object_async_get_requests_, object_get_requests_,
                   store_in_plasma_, get_request, cb_log, plasma_log>>
    /\ UNCHANGED dtsVars

\* The call of thread t has returned: its locals go out of scope.
Return(t) ==
  /\ ~aborted
  /\ th[t].pc = "done"
  /\ th' = [th EXCEPT ![t] = FinishedThread]
  /\ UNCHANGED <<storeVars, get_request, cb_log, plasma_log, aborted>>
  /\ UNCHANGED dtsVars

\* The steps a thread takes after the first section of its call.
Continue(t) ==
  \/ PutCallback(t)
  \/ PutReturn(t)
  \/ GetAsyncCallback(t)
  \/ GetWait(t)
  \/ GetWake(t)
  \/ GetTimeout(t)
  \/ GetFinish(t)
  \/ Return(t)

\* Spec: calls about the ids A and B; Get with lists of one id, two ids and
\* one id twice; Put also with an id that is not a direct-call id.
PutIds == Ids \cup {WithTransportType(A, RAYLET)}

GetIdLists == {<<A>>, <<A, B>>, <<A, A>>}

DeleteIdLists == {<<A>>, <<A, B>>}

Next ==
  \E t \in Threads :
    \/ PutLocked(t, PutIds, {None})
    \/ GetAsyncLocked(t, Ids)
    \/ GetLocked(t, GetIdLists)
    \/ Delete(t, DeleteIdLists)
    \/ GetOrPromoteToPlasma(t, Ids)
    \/ Continue(t)

Spec == Init /\ [][Next]_vars

\* SpecGet: Put and Get alone; Get with a list that names A twice and may
\* ask for two objects, so that one id fills two positions of results.
GetDupLists == {<<A, A, B>>, <<A, B>>}

ContinueGet(t) ==
  \/ PutReturn(t)
  \/ GetWait(t)
  \/ GetWake(t)
  \/ GetTimeout(t)
  \/ GetFinish(t)
  \/ Return(t)

NextGet ==
  \E t \in Threads :
    \/ PutLocked(t, Ids, {None})
    \/ GetLocked(t, GetDupLists)
    \/ ContinueGet(t)

SpecGet == Init /\ [][NextGet]_vars

\* SpecOneId: one more call, all calls about the id A; the objects put are
\* plain objects or OBJECT_IN_PLASMA markers.
InitOneId ==
  /\ objects_ = EmptyMap
  /\ object_async_get_requests_ = EmptyMap
  /\ object_get_requests_ = EmptyMap
  /\ promoted_to_plasma_ = {}
  /\ store_in_plasma_ = TRUE
  /\ get_request = EmptyMap
  /\ th = [t \in OneIdThreads |-> IdleThread]
  /\ cb_log = <<>>
  /\ plasma_log = <<>>
  /\ aborted = FALSE
  /\ InitSubmitter({})

NextOneId ==
  \E t \in OneIdThreads :
    \/ PutLocked(t, {A}, {None, OBJECT_IN_PLASMA})
    \/ GetAsyncLocked(t, {A})
    \/ GetLocked(t, {<<A>>})
    \/ Delete(t, {<<A>>})
    \/ GetOrPromoteToPlasma(t, {A})
    \/ Continue(t)

SpecOneId == InitOneId /\ [][NextOneId]_vars

\* -------------------------------- LocalDependencyResolver and task submitter

\* The worker of a thread that handles none.
NoWorker == WorkerAddress("", 0)

\* The resolver's callback for one dependency of a task: the lambda of
\* ResolveDependencies with its captures.
ResolverCallback(task, obj_id) == [task |-> task, obj_id |-> obj_id]

NoCallback == ResolverCallback(0, NilID)

\* A thread that runs submitter code: its position and its locals.  puts are
\* the store Puts it still has to make (TreatTaskAsFailed,
\* WriteObjectsToMemoryStore), later_puts those of its reply callback after
\* OnWorkerIdle, in_push whether it is inside PushNormalTask with mu_ held,
\* status the status a reply callback was invoked with, ids the elements
\* the loop of ResolveDependencies has still to visit and it the element its
\* iterator is at.
IdleDts ==
  [pc |-> "new", task |-> 0, addr |-> NoWorker, status |-> "OK",
   was_error |-> FALSE,
   ids |-> <<>>, it |-> NilID, puts |-> <<>>, later_puts |-> <<>>, in_push |-> FALSE,
   object |-> nullptr, async_callbacks |-> <<>>, cb |-> NoCallback,
   cb_obj |-> nullptr, ret |-> "finished"]

\* A thread whose code has returned.
FinishedDts == [IdleDts EXCEPT !.pc = "finished"]

\* One call of the lease client (RequestWorkerLease with the task whose
\* resources it asks for, ReturnWorker with a port), or one grant of the
\* lease service (with the port of the worker), and whether the submitter's
\* mu_ was held by the caller.
LeaseCall(op, arg, locked) == [op |-> op, arg |-> arg, locked |-> locked]

\* One call of client.PushNormalTask: the worker, the task, the message moved
\* into the request, the status the call returns, and whether the
\* submitter's mu_ was held by the caller.
PushCall(addr, task, message, status, locked) ==
  [addr |-> addr, task |-> task, message |-> message, status |-> status,
   locked |-> locked]

\* The calls of a kind in lease_log.
LeaseCalls(op) == {i \in DOMAIN lease_log : lease_log[i].op = op}

\* The lease requests that the lease service has not answered yet.
OutstandingRequests ==
  Cardinality(LeaseCalls("RequestWorkerLease")) - Cardinality(LeaseCalls("granted"))

\* A worker is leased from its grant to its return.
Leased(addr) ==
  Cardinality({i \in LeaseCalls("granted") : lease_log[i].arg = addr.port}) >
  Cardinality({i \in LeaseCalls("ReturnWorker") : lease_log[i].arg = addr.port})

\* ResolveDependencies, line 45: an argument that references more than one id.
MultiArgs(args) == \E i \in DOMAIN args : Len(args[i].object_ids) > 1

\* ResolveDependencies, lines 41-51: the direct-call ids the arguments
\* reference.
LocalDependencies(args) ==
  {args[i].object_ids[1] :
     i \in {j \in DOMAIN args : /\ Len(args[j].object_ids) > 0
                                /\ IsDirectCallType(args[j].object_ids[1])}}

\* The orders in which a loop may walk a hash set.
Orders(set) ==
  {order \in [1..Cardinality(set) -> set] :
     \A x \in set : \E i \in DOMAIN order : order[i] = x}

HasData(value) == value.data # NoData

HasMetadata(value) == value.metadata # None

\* DoInlineFound as a bug would have it: found is not checked.
DoInlineFoundUnchecked(obj_id, args) == TRUE

\* DoInlineObjectValue, line 36: an argument references obj_id.
DoInlineFound(obj_id, args) ==
  \E i \in DOMAIN args :
    Len(args[i].object_ids) > 0 /\ args[i].object_ids[1] = obj_id

\* DoInlineObjectValueKeepIds as a bug would have it: the id stays in the
\* argument beside the inlined bytes.
DoInlineObjectValueKeepIds(obj_id, value, args) ==
  [i \in DOMAIN args |->
     IF Len(args[i].object_ids) > 0 /\ args[i].object_ids[1] = obj_id
     THEN [args[i] EXCEPT !.data = value.data, !.metadata = value.metadata]
     ELSE args[i]]

\* DoInlineObjectValue, lines 6-35: the arguments of the message after the
\* value of obj_id was inlined.
DoInlineObjectValue(obj_id, value, args) ==
  [i \in DOMAIN args |->
     IF Len(args[i].object_ids) > 0 /\ args[i].object_ids[1] = obj_id
     THEN IF IsInPlasmaError(value)
          THEN [args[i] EXCEPT
                  !.object_ids = <<WithTransportType(obj_id, RAYLET)>>]
          ELSE [args[i] EXCEPT
                  !.object_ids = <<>>,
                  !.data = IF HasData(value) THEN value.data ELSE @,
                  !.metadata = IF HasMetadata(value) THEN value.metadata ELSE @]
     ELSE args[i]]

\* RequestNewWorkerIfNeeded as a bug would have it: a lease is requested
\* whether or not one is pending.
RequestNewWorkerAlways(pending, log, resource_spec) ==
  [pending |-> TRUE,
   log |-> Append(log, LeaseCall("RequestWorkerLease", resource_spec, TRUE))]

\* RequestNewWorkerIfNeeded, lines 130-137, called with mu_ held:
\* worker_request_pending_ and the log of the lease client after the call.
RequestNewWorkerIfNeeded(pending, log, resource_spec) ==
  IF pending
  THEN [pending |-> pending, log |-> log]
  ELSE [pending |-> TRUE,
        log |-> Append(log, LeaseCall("RequestWorkerLease", resource_spec, TRUE))]

\* RequestForQueue as a bug would have it: OnWorkerIdle requests no worker.
RequestForQueueNever(queue, pending, log) == [pending |-> pending, log |-> log]

\* OnWorkerIdle, lines 124-127: more workers are requested when the queue is
\* not empty.
RequestForQueue(queue, pending, log) ==
  IF queue # <<>>
  THEN RequestNewWorkerIfNeeded(pending, log, Head(queue))
  ELSE [pending |-> pending, log |-> log]

\* TreatTaskAsFailed: a WORKER_DIED error object is put under each return id
\* of the task.
TreatTaskAsFailed(task) ==
  [i \in 1..NumReturns(task) |->
     [id |-> ForTaskReturn(task, i), object |-> RayObject(NoData, WORKER_DIED)]]

\* WriteObjectsToMemoryStore: each object of the reply is put under its
\* return id.
WriteObjectsToMemoryStore(task) ==
  [i \in 1..NumReturns(task) |->
     [id |-> ForTaskReturn(task, i),
      object |-> RayObject(PutData(task, ForTaskReturn(task, i)), None)]]

\* The thread goes on with the Puts it has to make: the next one; or the
\* rest of OnWorkerIdle, when the Puts were those of a push that failed at
\* once; or the Puts of its reply callback; or it returns.
NextPut(rec) ==
  IF rec.puts # <<>> THEN [rec EXCEPT !.pc = "put"]
  ELSE IF rec.in_push THEN [rec EXCEPT !.pc = "on_worker_idle_rest"]
  ELSE IF rec.later_puts # <<>>
  THEN [rec EXCEPT !.pc = "put", !.puts = rec.later_puts, !.later_puts = <<>>]
  ELSE [FinishedDts EXCEPT !.status = rec.status]

\* Put, lines 357-362: the loop over the callbacks ends when none is left,
\* and Put returns.
Advance(rec) ==
  IF rec.pc = "put_callbacks" /\ rec.async_callbacks = <<>>
  THEN NextPut([rec EXCEPT !.puts = Tail(@), !.object = nullptr])
  ELSE rec

\* A callback returns to its caller: GetAsync called from the loop of
\* ResolveDependencies, the loop of Put, or SubmitTask.
ReturnTo(rec, ret) ==
  IF ret = "loop_next" THEN [rec EXCEPT !.pc = "loop_next"]
  ELSE IF ret = "put_callbacks" THEN Advance([rec EXCEPT !.pc = "put_callbacks"])
  ELSE FinishedDts

\* The variables of the store that no submitter code changes.
storeKept == <<object_get_requests_, store_in_plasma_, th>>

\* SubmitTask, lines 83-94, and ResolveDependencies, lines 41-60, up to the
\* loop over the dependencies.  With no dependency on_complete is called at
\* once, by the caller.  The calls of SubmitTask start in the order of the
\* task numbers, each on a thread of its own; what a call does after this
\* step interleaves with the other calls.
SubmitTask(task) ==
  LET x == SubmitThread(task)
      args == task_message[task]
      local_dependencies == LocalDependencies(args)
      rec == [IdleDts EXCEPT !.task = task]
  IN
  /\ ~aborted
  /\ x \notin DOMAIN dth
  /\ \A earlier \in TaskIds : earlier < task => SubmitThread(earlier) \in DOMAIN dth
  /\ IF MultiArgs(args)
     THEN \* RAY_CHECK(count <= 1)
          /\ aborted' = TRUE
          /\ dth' = MapSet(dth, x, [rec EXCEPT !.pc = "aborted"])
          /\ UNCHANGED task_state
     ELSE IF local_dependencies = {}
     THEN /\ dth' = MapSet(dth, x,
                      [rec EXCEPT !.pc = "on_complete",
                                  !.cb = ResolverCallback(task, NilID),
                                  !.ret = "finished"])
          /\ UNCHANGED <<task_state, aborted>>
     ELSE /\ \E order \in Orders(local_dependencies) :
               dth' = MapSet(dth, x, [rec EXCEPT !.pc = "loop", !.ids = order])
          /\ task_state' =
               MapSet(task_state, task,
                      [task |-> args, local_dependencies |-> local_dependencies])
          /\ UNCHANGED aborted
  /\ UNCHANGED <<objects_, object_async_get_requests_, promoted_to_plasma_,
                 get_request, cb_log, plasma_log, storeKept>>
  /\ UNCHANGED <<queued_tasks_, worker_request_pending_, client_cache_,
                 task_message, mu_holder, lease_log, push_log, push_replied,
                 queue_log>>

\* ResolveDependencies, lines 62-64, and GetAsync, lines 279-288: the loop
\* calls GetAsync for its next dependency, which under the store's mu_ finds
\* the object or registers the callback.
ResolveGetAsync(x) ==
  LET rec == dth[x]
      obj_id == Head(rec.ids)
      cb == ResolverCallback(rec.task, obj_id)
      ptr == GetAsyncPtr(obj_id)
  IN
  /\ ~aborted
  /\ x \in DOMAIN dth
  /\ rec.pc = "loop"
  /\ object_async_get_requests_' = GetAsyncWaiters(cb, obj_id)
  /\ dth' = [dth EXCEPT ![x] =
               IF ptr # nullptr
               THEN [rec EXCEPT !.pc = "callback", !.ids = Tail(@),
                                !.it = obj_id, !.cb = cb, !.cb_obj = ptr,
                                !.ret = "loop_next"]
               ELSE [rec EXCEPT !.pc = "loop_next", !.ids = Tail(@),
                                !.it = obj_id]]
  /\ UNCHANGED <<objects_, promoted_to_plasma_, get_request, cb_log,
                 plasma_log, aborted, storeKept>>
  /\ UNCHANGED <<queued_tasks_, worker_request_pending_, client_cache_,
                 task_message, task_state, mu_holder, lease_log, push_log,
                 push_replied, queue_log>>

\* RunCallbackComplete as a bug would have it: the resolution counts as
\* complete with every callback.
RunCallbackCompleteAlways(local_dependencies) == TRUE

\* ResolveDependencies, line 71: the callback completes the resolution when
\* it leaves no dependency pending.
RunCallbackComplete(local_dependencies) == local_dependencies = {}

\* ResolveDependencies, lines 64-79: the callback cb is invoked with the
\* object by the thread x, whose record is rec, and under the resolver's
\* mu_ erases its dependency and inlines the object.  The thread then calls
\* on_complete or returns to ret.
RunCallback(x, rec, cb, object, ret) ==
  LET local_dependencies == task_state[cb.task].local_dependencies \ {cb.obj_id}
  IN
  /\ cb_log' = Append(cb_log, CallbackCall(cb, object, FALSE))
  /\ IF ~DoInlineFound(cb.obj_id, task_message[cb.task])
     THEN \* RAY_CHECK(found)
          /\ aborted' = TRUE
          /\ dth' = [dth EXCEPT ![x] = [rec EXCEPT !.pc = "aborted"]]
          /\ UNCHANGED <<task_state, task_message>>
     ELSE /\ task_state' =
               [task_state EXCEPT ![cb.task].local_dependencies = local_dependencies]
          /\ task_message' =
               [task_message EXCEPT
                  ![cb.task] = DoInlineObjectValue(cb.obj_id, object, @)]
          /\ dth' = [dth EXCEPT ![x] =
                       IF RunCallbackComplete(local_dependencies)
                       THEN [rec EXCEPT !.pc = "on_complete", !.cb = cb,
                                        !.cb_obj = nullptr, !.ret = ret]
                       ELSE ReturnTo([rec EXCEPT !.cb = NoCallback,
                                                 !.cb_obj = nullptr], ret)]
          /\ UNCHANGED aborted

\* GetAsync, lines 289-292: the callback of an object that was found runs in
\* the caller of GetAsync, outside the store's mu_.
ResolveCallback(x) ==
  /\ ~aborted
  /\ x \in DOMAIN dth
  /\ dth[x].pc = "callback"
  /\ RunCallback(x, dth[x], dth[x].cb, dth[x].cb_obj, dth[x].ret)
  /\ UNCHANGED <<objects_, object_async_get_requests_, promoted_to_plasma_,
                 get_request, plasma_log, storeKept>>
  /\ UNCHANGED <<queued_tasks_, worker_request_pending_, client_cache_,
                 mu_holder, lease_log, push_log, push_replied, queue_log>>

\* What the increment of the loop's iterator may do when a callback has
\* erased the element the iterator is at (line 69 under line 62): the
\* iterator is invalid then, and a build either walks on to the elements
\* that are left or stops on a failed assertion of the container.
IteratorOutcomes == {"next", "abort"}

\* ResolveDependencies, line 62: the iterator of the loop moves on from the
\* element it is at, after GetAsync has returned.  The callback of the
\* element may have run by then, inside GetAsync or in a Put of another
\* thread, and have erased the element; the loop reads the set without mu_.
ResolveNext(x) ==
  LET rec == dth[x]
      erased == rec.it \notin task_state[rec.task].local_dependencies
  IN
  /\ ~aborted
  /\ x \in DOMAIN dth
  /\ rec.pc = "loop_next"
  /\ \E outcome \in IF erased THEN IteratorOutcomes ELSE {"next"} :
       IF outcome = "abort"
       THEN /\ aborted' = TRUE
            /\ dth' = [dth EXCEPT ![x].pc = "aborted"]
       ELSE /\ dth' = [dth EXCEPT ![x] =
                         IF rec.ids = <<>> THEN FinishedDts
                         ELSE [rec EXCEPT !.pc = "loop", !.it = NilID]]
            /\ UNCHANGED aborted
  /\ UNCHANGED <<objects_, object_async_get_requests_, promoted_to_plasma_,
                 get_request, cb_log, plasma_log, storeKept>>
  /\ UNCHANGED <<queued_tasks_, worker_request_pending_, client_cache_,
                 task_message, task_state, mu_holder, lease_log, push_log,
                 push_replied, queue_log>>

\* SubmitTask, lines 84-92: on_complete takes the submitter's mu_, requests a
\* worker if none is requested, and queues the task.  A thread that holds
\* mu_ already waits for itself here, for ever.
OnComplete(x) ==
  LET rec == dth[x]
      task == rec.cb.task
      requested == RequestNewWorkerIfNeeded(worker_request_pending_, lease_log, task)
  IN
  /\ ~aborted
  /\ x \in DOMAIN dth
  /\ rec.pc = "on_complete"
  /\ mu_holder = NoThread
  /\ worker_request_pending_' = requested.pending
  /\ lease_log' = requested.log
  /\ queued_tasks_' = Append(queued_tasks_, task)
  /\ queue_log' = Append(queue_log, task)
  /\ dth' = [dth EXCEPT ![x] = ReturnTo([rec EXCEPT !.cb = NoCallback], rec.ret)]
  /\ UNCHANGED <<objects_, object_async_get_requests_, promoted_to_plasma_,
                 get_request, cb_log, plasma_log, aborted, storeKept>>
  /\ UNCHANGED <<client_cache_, task_message, task_state, mu_holder, push_log,
                 push_replied>>

\* The worker the lease service grants next: the workers are alike, and it
\* grants the one of the lowest port that is not leased.
NextWorker(addr) ==
  /\ ~Leased(addr)
  /\ \A other \in Workers : ~Leased(other) => other.port >= addr.port

\* HandleWorkerLeaseGranted, lines 96-108: the lease service answers a
\* request with a worker that is not leased, and the callback, under mu_,
\* clears worker_request_pending_ and caches a client for the worker.
HandleWorkerLeaseGranted(addr) ==
  LET x == GrantThread(Cardinality(LeaseCalls("granted")) + 1)
  IN
  /\ ~aborted
  /\ mu_holder = NoThread
  /\ OutstandingRequests > 0
  /\ NextWorker(addr)
  /\ worker_request_pending_' = FALSE
  /\ client_cache_' = client_cache_ \cup {addr}
  /\ lease_log' = Append(lease_log, LeaseCall("granted", addr.port, FALSE))
  /\ dth' = MapSet(dth, x, [IdleDts EXCEPT !.pc = "on_worker_idle",
                                          !.addr = addr, !.was_error = FALSE])
  /\ UNCHANGED <<objects_, object_async_get_requests_, promoted_to_plasma_,
                 get_request, cb_log, plasma_log, aborted, storeKept>>
  /\ UNCHANGED <<queued_tasks_, task_message, task_state, mu_holder, push_log,
                 push_replied, queue_log>>

\* The statuses client.PushNormalTask returns when it is called.
PushStatuses == {"OK", "IOError"}

\* OnWorkerIdleReturns as a bug would have it: the worker is returned only
\* when the queue is empty.
OnWorkerIdleReturnsIfEmpty(queue, was_error) == queue = <<>>

\* OnWorkerIdle, line 117: the worker is returned.
OnWorkerIdleReturns(queue, was_error) == queue = <<>> \/ was_error

\* OnWorkerIdleFront as a bug would have it: the newest task is dispatched.
OnWorkerIdleBack(queue) == queue[Len(queue)]

\* OnWorkerIdle, line 121: the task that is dispatched is the head of the
\* queue.
OnWorkerIdleFront(queue) == Head(queue)

\* OnWorkerIdlePopped as a bug would have it: the task pushed stays in the
\* queue.
OnWorkerIdleKept(queue) == queue

\* OnWorkerIdle, line 122: the queue without its head.
OnWorkerIdlePopped(queue) == Tail(queue)

\* OnWorkerIdle, lines 114-128, with PushNormalTask, lines 139-147, all under
\* mu_: the worker is returned, or the head of the queue is pushed to it and
\* popped; then a worker is requested if tasks are left.  When the push
\* fails at once, the thread stays in PushNormalTask, with mu_ held, to
\* treat the task as failed.
OnWorkerIdle(x) ==
  LET rec == dth[x]
      task == OnWorkerIdleFront(queued_tasks_)
      returned == Append(lease_log, LeaseCall("ReturnWorker", rec.addr.port, TRUE))
  IN
  /\ ~aborted
  /\ x \in DOMAIN dth
  /\ rec.pc = "on_worker_idle"
  /\ mu_holder = NoThread
  /\ IF OnWorkerIdleReturns(queued_tasks_, rec.was_error)
     THEN LET requested ==
                RequestForQueue(queued_tasks_, worker_request_pending_, returned)
          IN  /\ lease_log' = requested.log
              /\ worker_request_pending_' = requested.pending
              /\ dth' = [dth EXCEPT ![x] = NextPut(rec)]
              /\ UNCHANGED <<queued_tasks_, task_message, push_log, mu_holder>>
     ELSE \E status \in PushStatuses :
            /\ push_log' = Append(push_log,
                                  PushCall(rec.addr, task, task_message[task], status, TRUE))
            /\ task_message' = [task_message EXCEPT ![task] = EmptyMessage]
            /\ IF status = "OK"
               THEN LET queue == OnWorkerIdlePopped(queued_tasks_)
                        requested ==
                          RequestForQueue(queue, worker_request_pending_, lease_log)
                    IN  /\ queued_tasks_' = queue
                        /\ lease_log' = requested.log
                        /\ worker_request_pending_' = requested.pending
                        /\ dth' = [dth EXCEPT ![x] = NextPut(rec)]
                        /\ UNCHANGED mu_holder
               ELSE /\ mu_holder' = x
                    /\ dth' = [dth EXCEPT ![x] =
                                 NextPut([rec EXCEPT !.puts = TreatTaskAsFailed(task),
                                                     !.in_push = TRUE])]
                    /\ UNCHANGED <<queued_tasks_, lease_log, worker_request_pending_>>
  /\ UNCHANGED <<objects_, object_async_get_requests_, promoted_to_plasma_,
                 get_request, cb_log, plasma_log, aborted, storeKept>>
  /\ UNCHANGED <<client_cache_, task_state, push_replied, queue_log>>

\* OnWorkerIdle, lines 122-127, after a PushNormalTask that failed at once
\* and has treated the task as failed.
OnWorkerIdleRest(x) ==
  LET rec == dth[x]
      queue == OnWorkerIdlePopped(queued_tasks_)
      requested == RequestForQueue(queue, worker_request_pending_, lease_log)
  IN
  /\ ~aborted
  /\ x \in DOMAIN dth
  /\ rec.pc = "on_worker_idle_rest"
  /\ queued_tasks_' = queue
  /\ lease_log' = requested.log
  /\ worker_request_pending_' = requested.pending
  /\ mu_holder' = NoThread
  /\ dth' = [dth EXCEPT ![x] = NextPut([rec EXCEPT !.in_push = FALSE])]
  /\ UNCHANGED <<objects_, object_async_get_requests_, promoted_to_plasma_,
                 get_request, cb_log, plasma_log, aborted, storeKept>>
  /\ UNCHANGED <<client_cache_, task_message, task_state, push_log,
                 push_replied, queue_log>>

\* The statuses a push completes with.
ReplyStatuses == {"OK", "IOError"}

\* PushReplyError as a bug would have it: the status of the reply is not
\* looked at.
PushReplyErrorIgnored(status) == FALSE

\* PushNormalTask, lines 149-150: the push has failed.
PushReplyError(status) == status # "OK"

\* PushNormalTask, lines 148-156: the reply callback of a push is invoked.
\* It calls OnWorkerIdle and then treats the task as failed or writes the
\* objects of the reply to the store.
PushReply(i) ==
  \E status \in ReplyStatuses :
    LET x == ReplyThread(i)
        call == push_log[i]
    IN
    /\ ~aborted
    /\ i \in DOMAIN push_log
    /\ call.status = "OK"
    /\ i \notin push_replied
    /\ push_replied' = push_replied \cup {i}
    /\ dth' = MapSet(dth, x,
                [IdleDts EXCEPT
                   !.pc = "on_worker_idle",
                   !.addr = call.addr,
                   !.status = status,
                   !.was_error = PushReplyError(status),
                   !.later_puts = IF PushReplyError(status)
                                  THEN TreatTaskAsFailed(call.task)
                                  ELSE WriteObjectsToMemoryStore(call.task)])
    /\ UNCHANGED <<objects_, object_async_get_requests_, promoted_to_plasma_,
                   get_request, cb_log, plasma_log, aborted, storeKept>>
    /\ UNCHANGED <<queued_tasks_, worker_request_pending_, client_cache_,
                   task_message, task_state, mu_holder, lease_log, push_log,
                   queue_log>>

\* Put, lines 312-355, called by a thread of the submitter whose record is
\* rec with the first of its puts: up to the release of the store's mu_.
PutByThread(x, rec) ==
  LET object_id == Head(rec.puts).id
      object == Head(rec.puts).object
      object_entry == RayObject(object.data, object.metadata)
      promoted == PutPromoted(object_id)
  IN
  IF ~IsDirectCallType(object_id) \/ (promoted /\ ~store_in_plasma_)
  THEN \* RAY_CHECK(object_id.IsDirectCallType()),
       \* RAY_CHECK(store_in_plasma_ != nullptr)
       /\ aborted' = TRUE
       /\ dth' = MapSet(dth, x, [rec EXCEPT !.pc = "aborted"])
       /\ UNCHANGED <<objects_, object_async_get_requests_, promoted_to_plasma_,
                      get_request, plasma_log>>
  ELSE IF PutObjectExists(object_id)
  THEN /\ dth' = MapSet(dth, x, NextPut([rec EXCEPT !.puts = Tail(@)]))
       /\ UNCHANGED <<objects_, object_async_get_requests_, promoted_to_plasma_,
                      get_request, plasma_log, aborted>>
  ELSE /\ object_async_get_requests_' = PutAsyncErased(object_id)
       /\ plasma_log' =
            IF promoted
            THEN Append(plasma_log,
                        PlasmaCall(object, WithTransportType(object_id, RAYLET),
                                   TRUE))
            ELSE plasma_log
       /\ promoted_to_plasma_' = PutPromotedErased(object_id)
       /\ get_request' = PutSetRequests(object_id, object_entry)
       /\ objects_' = IF PutShouldAddEntry(object_id)
                      THEN MapEmplace(objects_, object_id, object_entry)
                      ELSE objects_
       /\ dth' = MapSet(dth, x,
                   Advance([rec EXCEPT
                              !.pc = "put_callbacks",
                              !.object = object_entry,
                              !.async_callbacks = PutAsyncCallbacks(object_id)]))
       /\ UNCHANGED aborted

\* TreatTaskAsFailed, WriteObjectsToMemoryStore: the next Put of the thread.
PutNext(x) ==
  /\ ~aborted
  /\ x \in DOMAIN dth
  /\ dth[x].pc = "put"
  /\ PutByThread(x, dth[x])
  /\ UNCHANGED <<cb_log, storeKept>>
  /\ UNCHANGED <<queued_tasks_, worker_request_pending_, client_cache_,
                 task_message, task_state, mu_holder, lease_log, push_log,
                 push_replied, queue_log>>

\* Put, lines 357-360: the next callback of the local list is invoked,
\* outside the store's mu_.
PutRunCallback(x) ==
  /\ ~aborted
  /\ x \in DOMAIN dth
  /\ dth[x].pc = "put_callbacks"
  /\ RunCallback(x, [dth[x] EXCEPT !.async_callbacks = Tail(@)],
                 Head(dth[x].async_callbacks), dth[x].object, "put_callbacks")
  /\ UNCHANGED <<objects_, object_async_get_requests_, promoted_to_plasma_,
                 get_request, plasma_log, storeKept>>
  /\ UNCHANGED <<queued_tasks_, worker_request_pending_, client_cache_,
                 mu_holder, lease_log, push_log, push_replied, queue_log>>

\* SpecDTS: the tasks are submitted, leases are granted and pushes are
\* replied to.
InitDTS ==
  /\ objects_ = EmptyMap
  /\ object_async_get_requests_ = EmptyMap
  /\ object_get_requests_ = EmptyMap
  /\ promoted_to_plasma_ = {}
  /\ store_in_plasma_ = TRUE
  /\ get_request = EmptyMap
  /\ th = <<>>
  /\ cb_log = <<>>
  /\ plasma_log = <<>>
  /\ aborted = FALSE
  /\ InitSubmitter(TaskIds)

NextDTS ==
  \/ \E task \in TaskIds : SubmitTask(task)
  \/ \E addr \in Workers : HandleWorkerLeaseGranted(addr)
  \/ \E i \in 1..NTasks : PushReply(i)
  \/ \E x \in DOMAIN dth : ResolveGetAsync(x)
  \/ \E x \in DOMAIN dth : ResolveCallback(x)
  \/ \E x \in DOMAIN dth : ResolveNext(x)
  \/ \E x \in DOMAIN dth : OnComplete(x)
  \/ \E x \in DOMAIN dth : OnWorkerIdle(x)
  \/ \E x \in DOMAIN dth : OnWorkerIdleRest(x)
  \/ \E x \in DOMAIN dth : PutNext(x)
  \/ \E x \in DOMAIN dth : PutRunCallback(x)

SpecDTS == InitDTS /\ [][NextDTS]_vars

\* SpecDTS with progress: a thread that can take a step takes one, every
\* lease request is granted while a worker is free, and every push that was
\* accepted completes.
FairDTS == SpecDTS /\ WF_vars(NextDTS)

\* ------------------------------------------- the resolver and its inputs

\* The most argument slots a task has.
MaxArgs == 2

\* The argument slots of the tasks that are resolved: a value, a reference
\* to a direct-call id, a reference to an id of the raylet transport, and two
\* ids in one slot.
ResolveSlots ==
  {Arg(<<>>, <<9, "v">>, None),
   Arg(<<A>>, NoData, None),
   Arg(<<B>>, NoData, None),
   Arg(<<ObjectID("P", RAYLET)>>, NoData, None),
   Arg(<<A, B>>, NoData, None)}

\* The argument lists of the tasks that are resolved.
ResolveArgLists ==
  UNION {[1..n -> ResolveSlots] : n \in 1..MaxArgs}

\* The task that is resolved.
ResolveTask == 1

\* The threads that put the objects the task depends on.
NPuts == 2

PutThread(n) == [kind |-> "put", n |-> n]

\* A thread that calls DoInlineObjectValue itself.
InlineThread == [kind |-> "inline", n |-> 0]

\* The objects that are put and delivered: data, an error (metadata and no
\* data), and the marker of an object that is in plasma.
UserObjects(n, object_id) ==
  {RayObject(PutData(n, object_id), None),
   RayObject(NoData, WORKER_DIED),
   RayObject(NoData, OBJECT_IN_PLASMA)}

\* A caller puts an object under object_id: Put, lines 312-355.
UserPut(n, object_id) ==
  \E object \in UserObjects(n, object_id) :
    LET x == PutThread(n)
        rec == [IdleDts EXCEPT !.puts = <<[id |-> object_id, object |-> object]>>]
    IN
    /\ ~aborted
    /\ x \notin DOMAIN dth
    /\ PutByThread(x, rec)
    /\ UNCHANGED <<cb_log, storeKept>>
    /\ UNCHANGED <<queued_tasks_, worker_request_pending_, client_cache_,
                   task_message, task_state, mu_holder, lease_log, push_log,
                   push_replied, queue_log>>

\* DoInlineObjectValue, lines 6-37, called with an object for a task that was
\* not handed to the resolver yet.
InlineCall(obj_id) ==
  \E value \in UserObjects(0, obj_id) :
    LET x == InlineThread
        rec == [IdleDts EXCEPT !.task = ResolveTask,
                               !.cb = ResolverCallback(ResolveTask, obj_id),
                               !.cb_obj = value]
    IN
    /\ ~aborted
    /\ x \notin DOMAIN dth
    /\ SubmitThread(ResolveTask) \notin DOMAIN dth
    /\ IF ~DoInlineFound(obj_id, task_message[ResolveTask])
       THEN \* RAY_CHECK(found)
            /\ aborted' = TRUE
            /\ dth' = MapSet(dth, x, [rec EXCEPT !.pc = "aborted"])
            /\ UNCHANGED task_message
       ELSE /\ task_message' =
                 [task_message EXCEPT
                    ![ResolveTask] = DoInlineObjectValue(obj_id, value, @)]
            /\ dth' = MapSet(dth, x, [rec EXCEPT !.pc = "finished"])
            /\ UNCHANGED aborted
    /\ UNCHANGED <<objects_, object_async_get_requests_, promoted_to_plasma_,
                   get_request, cb_log, plasma_log, storeKept>>
    /\ UNCHANGED <<queued_tasks_, worker_request_pending_, client_cache_,
                   task_state, mu_holder, lease_log, push_log, push_replied,
                   queue_log>>

\* SpecResolve: a task with any of the argument lists is resolved while the
\* objects it may depend on are put.
InitResolve ==
  /\ objects_ = EmptyMap
  /\ object_async_get_requests_ = EmptyMap
  /\ object_get_requests_ = EmptyMap
  /\ promoted_to_plasma_ = {}
  /\ store_in_plasma_ = TRUE
  /\ get_request = EmptyMap
  /\ th = <<>>
  /\ cb_log = <<>>
  /\ plasma_log = <<>>
  /\ aborted = FALSE
  /\ queued_tasks_ = <<>>
  /\ worker_request_pending_ = FALSE
  /\ client_cache_ = {}
  /\ \E args \in ResolveArgLists : task_message = [task \in {ResolveTask} |-> args]
  /\ task_state = EmptyMap
  /\ mu_holder = NoThread
  /\ dth = EmptyMap
  /\ lease_log = <<>>
  /\ push_log = <<>>
  /\ push_replied = {}
  /\ queue_log = <<>>

NextResolve ==
  \/ SubmitTask(ResolveTask)
  \/ \E n \in 1..NPuts : \E object_id \in Ids : UserPut(n, object_id)
  \/ \E obj_id \in Ids : InlineCall(obj_id)
  \/ \E x \in DOMAIN dth : ResolveGetAsync(x)
  \/ \E x \in DOMAIN dth : ResolveCallback(x)
  \/ \E x \in DOMAIN dth : ResolveNext(x)
  \/ \E x \in DOMAIN dth : OnComplete(x)
  \/ \E x \in DOMAIN dth : PutRunCallback(x)

SpecResolve == InitResolve /\ [][NextResolve]_vars

\* ---------------------------------------------------------------- claims

\* The step of thread t that is the locked section of a Put that did not
\* fail: the thread goes on to run the callbacks it drained.
PutStep(t) == th[t].pc = "idle" /\ th'[t].pc = "put_callbacks"

\* The requests registered under an id in object_get_requests_.
Registered(object_id) == SeqToSet(MapGet(object_get_requests_, object_id, <<>>))

\* C1: a successful Put(id, v) is never lost: when its locked section ends,
\* v is stored under id in objects_, or a GetRequest registered under id
\* holds v in its result map.
C1_PutStoredOrHeld ==
  [][\A t \in DOMAIN th :
       PutStep(t) =>
         \/ MapGet(objects_', th'[t].id, nullptr) = th'[t].object
         \/ \E r \in Registered(th'[t].id) :
              GetRequestGet(get_request'[r], th'[t].id) = th'[t].object]_vars

\* C2: a Put of an id that is already in objects_ returns ObjectExists and
\* changes nothing: not the maps of the store, not a GetRequest, and neither
\* a callback nor store_in_plasma_ is called.
C2_PutExistsChangesNothing ==
  [][\A t \in DOMAIN th :
       (th[t].pc = "idle" /\ th'[t].op = "Put" /\ th'[t].id \in DOMAIN objects_) =>
         /\ th'[t].pc = "done"
         /\ th'[t].status = "ObjectExists"
         /\ th'[t].async_callbacks = <<>>
         /\ UNCHANGED <<objects_, object_async_get_requests_,
                        object_get_requests_, promoted_to_plasma_, get_request,
                        cb_log, plasma_log>>]_vars

\* C2, witness: a Put has returned ObjectExists for an id that has a
\* GetRequest registered, so there was state to change.
C2_Witness ==
  \E t \in DOMAIN th :
    /\ th[t].status = "ObjectExists"
    /\ th[t].id \in DOMAIN object_get_requests_

\* The callbacks invoked so far with the object of the Put of thread t, among
\* those registered under its id when it took the lock, in the order of
\* their invocation.
RECURSIVE CallsOfPut(_, _)
CallsOfPut(t, log) ==
  IF log = <<>> THEN <<>>
  ELSE IF Head(log).obj = th[t].object /\ Head(log).cb \in SeqToSet(th[t].drained)
       THEN <<Head(log).cb>> \o CallsOfPut(t, Tail(log))
       ELSE CallsOfPut(t, Tail(log))

\* The number of invocations of the callback cb so far.
TimesCalled(cb) == Cardinality({i \in DOMAIN cb_log : cb_log[i].cb = cb})

\* C3: the callbacks registered by GetAsync under an absent id are all taken
\* by the next successful Put of the id, which leaves no entry for the id in
\* object_async_get_requests_ and invokes none of them under the lock; it
\* then invokes each of them once, with its object, in the order of their
\* registration, and has invoked them all when it returns.
C3_PutRunsWaitersInOrder ==
  /\ [][\A t \in DOMAIN th :
          PutStep(t) =>
            /\ th'[t].async_callbacks =
                 MapGet(object_async_get_requests_, th'[t].id, <<>>)
            /\ th'[t].id \notin DOMAIN object_async_get_requests_'
            /\ cb_log' = cb_log]_vars
  /\ [](\A t \in DOMAIN th :
          th[t].op = "Put" /\ th[t].pc \in {"put_callbacks", "done"} =>
            /\ CallsOfPut(t, cb_log) =
                 SubSeq(th[t].drained, 1,
                        Len(th[t].drained) - Len(th[t].async_callbacks))
            /\ th[t].pc = "done" => CallsOfPut(t, cb_log) = th[t].drained
            /\ \A cb \in SeqToSet(th[t].drained) : TimesCalled(cb) <= 1)
  /\ [](\A i \in DOMAIN cb_log : ~cb_log[i].locked)

\* C3, witness: a Put has returned after it ran two callbacks that were
\* registered under its id.
C3_Witness ==
  \E t \in DOMAIN th :
    /\ th[t].op = "Put" /\ th[t].pc = "done"
    /\ Len(th[t].drained) = 2
    /\ CallsOfPut(t, cb_log) = th[t].drained

\* C4: a callback passed to GetAsync is invoked at most once.  If the id is
\* in objects_ at the call the callback does not join the waiters and
\* GetAsync invokes it, once, with the stored object; if the id is absent
\* the callback joins the end of the waiters of the id and GetAsync does not
\* invoke it.  No callback is registered under an id that is in objects_.
C4_GetAsyncAtMostOnce ==
  /\ [][\A t \in DOMAIN th :
          (th[t].pc = "idle" /\ th'[t].op = "GetAsync") =>
            /\ cb_log' = cb_log
            /\ IF th'[t].id \in DOMAIN objects_
               THEN /\ UNCHANGED object_async_get_requests_
                    /\ th'[t].pc = "async_callback"
                    /\ th'[t].ptr = objects_[th'[t].id]
               ELSE /\ object_async_get_requests_' =
                         MapSet(object_async_get_requests_, th'[t].id,
                                Append(MapGet(object_async_get_requests_,
                                              th'[t].id, <<>>), t))
                    /\ th'[t].pc = "done"
                    /\ th'[t].ptr = nullptr]_vars
  /\ [][\A t \in DOMAIN th :
          (th[t].pc = "async_callback" /\ th'[t].pc # "async_callback") =>
            /\ th'[t].pc = "done"
            /\ cb_log' = Append(cb_log, CallbackCall(t, th[t].ptr, FALSE))]_vars
  /\ [](\A t \in DOMAIN th : TimesCalled(t) <= 1)
  /\ [](\A id \in DOMAIN object_async_get_requests_ : id \notin DOMAIN objects_)

\* C4, witness: GetAsync found the object and has invoked its callback,
\* while a Put of the same id that ran before it is still in its call.
C4_Witness ==
  \E t \in DOMAIN th, p \in DOMAIN th :
    /\ th[t].op = "GetAsync" /\ th[t].pc = "done" /\ th[t].ptr # nullptr
    /\ TimesCalled(t) = 1
    /\ th[p].op = "Put" /\ th[p].pc = "put_callbacks" /\ th[p].object = th[t].ptr

\* The step of thread t that is the first locked section of a Get.
GetStep(t) == th[t].pc = "idle" /\ th'[t].op = "Get"

\* A Get of the one id object_id that asks for one object.
IsGetOne(t, object_id, remove_after_get) ==
  /\ th[t].op = "Get"
  /\ th[t].ids = <<object_id>>
  /\ th[t].num = 1
  /\ th[t].remove = remove_after_get

\* C5: a Get([id], 1, -1, false) made when id is in objects_ returns OK with
\* the stored object and does not block; a Put(id, v) puts v into the map of
\* every request it makes ready; and a Get([id], 1, t, false) that is
\* blocked when the Put makes its request ready is woken and returns OK
\* with results = [v].
C5_PutGetLaw ==
  /\ [][\A t \in DOMAIN th :
          (GetStep(t) /\ th'[t].ids = <<th'[t].ids[1]>> /\ ~th'[t].remove
             /\ th'[t].ids[1] \in DOMAIN objects_) =>
            /\ th'[t].pc = "done"
            /\ th'[t].status = "OK"
            /\ th'[t].results = <<objects_[th'[t].ids[1]]>>]_vars
  /\ [][\A t \in DOMAIN th :
          PutStep(t) =>
            \A r \in Registered(th'[t].id) :
               (~get_request[r].is_ready_ /\ get_request'[r].is_ready_) =>
                 GetRequestGet(get_request'[r], th'[t].id) = th'[t].object]_vars
  /\ [][\A g \in DOMAIN th :
          (/\ IsGetOne(g, th[g].ids[1], FALSE)
           /\ th[g].pc = "blocked"
           /\ get_request[g].is_ready_
           /\ th'[g].pc # "blocked") =>
            /\ th'[g].pc = "populate"
            /\ th'[g].done]_vars
  /\ [](\A g \in DOMAIN th :
          (/\ IsGetOne(g, th[g].ids[1], FALSE)
           /\ th[g].pc = "done"
           /\ th[g].done) =>
            /\ th[g].status = "OK"
            /\ th[g].results[1] # nullptr)

\* C6 as stated: of two Get([id], 1, -1, true) calls only one receives the
\* object of a Put: no two such calls return the same object.
C6_ExactlyOneReceives ==
  \A g1 \in DOMAIN th, g2 \in DOMAIN th :
    (/\ g1 # g2
     /\ IsGetOne(g1, A, TRUE) /\ th[g1].timeout = -1 /\ th[g1].pc = "done"
     /\ IsGetOne(g2, A, TRUE) /\ th[g2].timeout = -1 /\ th[g2].pc = "done") =>
      th[g1].results # th[g2].results

\* C6, amended: a Put(id, v) hands v to every Get that waits registered
\* under id (to both of two such Gets), and it stores v exactly when none of
\* the requests registered under id is a remove_after_get one; a
\* Get([id], 1, -1, true) that finds id in objects_ returns the object and
\* removes id; and such a Get never returns without an object: one that
\* was handed none stays blocked until a later Put(id).
C6_RemoveAfterGet ==
  /\ [][\A t \in DOMAIN th :
          PutStep(t) =>
            /\ \A r \in Registered(th'[t].id) :
                  ~get_request[r].is_ready_ =>
                    GetRequestGet(get_request'[r], th'[t].id) = th'[t].object
            /\ (th'[t].id \in DOMAIN objects_') =
                 (\A r \in Registered(th'[t].id) : ~get_request[r].remove_after_get_)
            /\ th'[t].id \in DOMAIN objects_' =>
                 objects_'[th'[t].id] = th'[t].object]_vars
  /\ [][\A g \in DOMAIN th :
          (GetStep(g) /\ th'[g].ids = <<A>> /\ th'[g].remove /\ A \in DOMAIN objects_) =>
            /\ th'[g].results = <<objects_[A]>>
            /\ th'[g].pc = "done"
            /\ A \notin DOMAIN objects_']_vars
  /\ [](\A g \in DOMAIN th :
          (IsGetOne(g, A, TRUE) /\ th[g].timeout = -1 /\ th[g].pc = "done") =>
            /\ th[g].status = "OK"
            /\ th[g].results[1] # nullptr
            /\ th[g].results[1].data[2] = A.name)

\* C6, witness: two Get([A], 1, -1, true) calls have returned the object of
\* the same Put, and A is not in objects_.
C6_Witness ==
  \E g1 \in DOMAIN th, g2 \in DOMAIN th :
    /\ g1 # g2
    /\ IsGetOne(g1, A, TRUE) /\ th[g1].timeout = -1 /\ th[g1].pc = "done"
    /\ IsGetOne(g2, A, TRUE) /\ th[g2].timeout = -1 /\ th[g2].pc = "done"
    /\ th[g1].results = th[g2].results
    /\ A \notin DOMAIN objects_

\* The positions of the results of a Get that hold an object.
Filled(t) == {i \in DOMAIN th[t].results : th[t].results[i] # nullptr}

\* The ids of the list of a Get for which the call holds an object: in its
\* results or in the map of its request.
Available(t) ==
  {id \in SeqToSet(th[t].ids) :
     \/ \E i \in Filled(t) : th[t].ids[i] = id
     \/ t \in DOMAIN get_request /\ id \in DOMAIN get_request[t].objects_}

\* C7: a Get whose list may hold an id twice, with
\* 1 <= num_objects <= |unique(ids)|, does not abort on a check, and does not
\* stay blocked once it holds objects of num_objects distinct ids of its
\* list: its request is ready then, so that the wait ends.
C7_GetToleratesDuplicates ==
  \A t \in DOMAIN th :
    th[t].op = "Get" =>
      /\ th[t].pc # "aborted"
      /\ (th[t].pc \in {"wait", "blocked"} /\ Cardinality(Available(t)) >= th[t].num) =>
           get_request[t].is_ready_

NoDuplicates(object_ids) == Cardinality(SeqToSet(object_ids)) = Len(object_ids)

\* What C8 and its amendment share: a Get of a list without duplicates
\* returns as many results as ids, and a filled position i holds an object
\* that was put under ids[i].
GetResultsMatch(t) ==
  /\ Len(th[t].results) = Len(th[t].ids)
  /\ \A i \in Filled(t) :
       /\ th[t].results[i].data[2] = th[t].ids[i].name
       /\ th[t].results[i].data[1] \in DOMAIN th

\* C8 as stated: Get returns OK exactly when at least num_objects positions
\* are filled, and TimedOut only when fewer are.
C8_StatusIffFilled ==
  \A t \in DOMAIN th :
    (th[t].op = "Get" /\ th[t].pc = "done" /\ NoDuplicates(th[t].ids)) =>
      /\ GetResultsMatch(t)
      /\ (th[t].status = "OK") = (Cardinality(Filled(t)) >= th[t].num)
      /\ th[t].status = "TimedOut" => Cardinality(Filled(t)) < th[t].num

\* C8, amended: Get returns OK only when num_objects positions are filled;
\* it returns TimedOut only for a timeout other than -1, with at most
\* num_objects positions filled (all of them when the Put came between the
\* timeout and the return).
C8_StatusAndResults ==
  \A t \in DOMAIN th :
    (th[t].op = "Get" /\ th[t].pc = "done" /\ NoDuplicates(th[t].ids)) =>
      /\ GetResultsMatch(t)
      /\ th[t].status \in {"OK", "TimedOut"}
      /\ th[t].status = "OK" => Cardinality(Filled(t)) = th[t].num
      /\ th[t].status = "TimedOut" =>
           th[t].timeout # -1 /\ Cardinality(Filled(t)) <= th[t].num

\* C8, witness: a Get of two ids has returned TimedOut with both positions
\* filled.
C8_Witness ==
  \E t \in DOMAIN th :
    /\ th[t].op = "Get" /\ th[t].pc = "done" /\ th[t].ids = <<A, B>>
    /\ th[t].num = 2
    /\ th[t].status = "TimedOut"
    /\ Cardinality(Filled(t)) = 2

\* C9: a Get that has returned is registered under no id, and no vector of
\* object_get_requests_ is empty: the requests registered are those of Gets
\* that are still in their call.  So a Put of an id that is not in objects_
\* and under which no remove_after_get request is registered stores its
\* object, whatever Get timed out on the id before.
C9_ReturnedGetDeregistered ==
  /\ [](\A id \in DOMAIN object_get_requests_ :
          /\ object_get_requests_[id] # <<>>
          /\ \A r \in Registered(id) :
               /\ th[r].op = "Get"
               /\ th[r].pc \in {"wait", "blocked", "populate"}
               /\ r \in DOMAIN get_request
               /\ id \in get_request[r].object_ids_)
  /\ [][\A t \in DOMAIN th :
          (/\ th[t].pc = "idle" /\ th'[t].op = "Put"
           /\ IsDirectCallType(th'[t].id)
           /\ th'[t].id \notin DOMAIN objects_
           /\ \A r \in Registered(th'[t].id) : ~get_request[r].remove_after_get_) =>
            /\ th'[t].pc = "put_callbacks"
            /\ th'[t].id \in DOMAIN objects_'
            /\ objects_'[th'[t].id] = th'[t].object]_vars
  /\ [][\A t \in DOMAIN th :
          (th[t].pc = "put_callbacks" /\ th'[t].pc # "put_callbacks") =>
            th'[t].pc = "done" /\ th'[t].status = "OK"]_vars

\* C9, witness: a Get([A], 1, t, true) has returned TimedOut with nothing,
\* and a Put(A) made after it has returned OK and its object is in objects_.
C9_Witness ==
  \E g \in DOMAIN th, p \in DOMAIN th :
    /\ IsGetOne(g, A, TRUE) /\ th[g].pc = "done" /\ th[g].status = "TimedOut"
    /\ th[g].results = <<nullptr>>
    /\ g < p
    /\ th[p].op = "Put" /\ th[p].pc = "done" /\ th[p].status = "OK"
    /\ MapGet(objects_, A, nullptr) = th[p].object
    /\ A \notin DOMAIN object_get_requests_

\* C10: store_in_plasma_ is called by the locked section of a successful
\* Put of an id that is in promoted_to_plasma_, once, with the object and the
\* id rewritten to the raylet transport, and by no other step; that Put
\* takes the id out of promoted_to_plasma_, and stores the object unless a
\* remove_after_get request is registered under the id.  Only
\* GetOrPromoteToPlasma of an id that is not in objects_ puts an id into
\* promoted_to_plasma_, and it returns no object then.
C10_PromotedPutStoresInPlasma ==
  /\ [][\A t \in DOMAIN th :
          (PutStep(t) /\ th'[t].id \in promoted_to_plasma_) =>
            /\ Len(plasma_log') = Len(plasma_log) + 1
            /\ SubSeq(plasma_log', 1, Len(plasma_log)) = plasma_log
            /\ plasma_log'[Len(plasma_log')].obj = th'[t].object
            /\ plasma_log'[Len(plasma_log')].id =
                 [name |-> th'[t].id.name, transport |-> RAYLET]
            /\ th'[t].id \notin promoted_to_plasma_'
            /\ (\A r \in Registered(th'[t].id) : ~get_request[r].remove_after_get_) =>
                 MapGet(objects_', th'[t].id, nullptr) = th'[t].object]_vars
  /\ [][(\A t \in DOMAIN th : ~(PutStep(t) /\ th'[t].id \in promoted_to_plasma_)) =>
          UNCHANGED plasma_log]_vars
  /\ [][\A t \in DOMAIN th :
          (th[t].pc = "idle" /\ th'[t].op = "GetOrPromoteToPlasma"
             /\ th'[t].id \notin DOMAIN objects_) =>
            /\ promoted_to_plasma_' = promoted_to_plasma_ \cup {th'[t].id}
            /\ th'[t].ptr = nullptr]_vars
  /\ [][(\A t \in DOMAIN th :
           ~(th[t].pc = "idle" /\ th'[t].op = "GetOrPromoteToPlasma")) =>
          promoted_to_plasma_' \subseteq promoted_to_plasma_]_vars

\* C10, witness: store_in_plasma_ was called once, for the promoted A; A
\* was deleted, and a later Put of A has stored its object and returned OK
\* without a second call.
C10_Witness ==
  \E p \in DOMAIN th, d \in DOMAIN th :
    /\ Len(plasma_log) = 1
    /\ plasma_log[1].id = [name |-> "A", transport |-> RAYLET]
    /\ th[d].op = "Delete" /\ th[d].pc = "done"
    /\ th[p].op = "Put" /\ th[p].pc = "done" /\ th[p].status = "OK"
    /\ th[p].id = A
    /\ th[p].object.data[1] > plasma_log[1].obj.data[1]
    /\ MapGet(objects_, A, nullptr) = th[p].object

\* C11: GetOrPromoteToPlasma(id) returns the stored object when id is in
\* objects_ and its object is not an OBJECT_IN_PLASMA marker, and returns no
\* object otherwise; it puts id into promoted_to_plasma_ only when id is not
\* in objects_; and it leaves objects_, object_async_get_requests_ and
\* object_get_requests_ as they are.
C11_GetOrPromoteToPlasma ==
  [][\A t \in DOMAIN th :
       (th[t].pc = "idle" /\ th'[t].op = "GetOrPromoteToPlasma") =>
         /\ th'[t].pc = "done"
         /\ th'[t].ptr =
              IF th'[t].id \in DOMAIN objects_
              THEN IF objects_[th'[t].id].metadata = OBJECT_IN_PLASMA
                   THEN nullptr
                   ELSE objects_[th'[t].id]
              ELSE nullptr
         /\ promoted_to_plasma_' =
              IF th'[t].id \in DOMAIN objects_
              THEN promoted_to_plasma_
              ELSE promoted_to_plasma_ \cup {th'[t].id}
         /\ UNCHANGED <<objects_, object_async_get_requests_,
                        object_get_requests_, get_request>>]_vars

\* C11, witness: GetOrPromoteToPlasma(A) has returned no object although A
\* is in objects_, with an OBJECT_IN_PLASMA marker, and A is not promoted.
C11_Witness ==
  \E t \in DOMAIN th :
    /\ th[t].op = "GetOrPromoteToPlasma" /\ th[t].pc = "done" /\ th[t].id = A
    /\ th[t].ptr = nullptr
    /\ A \in DOMAIN objects_
    /\ IsInPlasmaError(objects_[A])
    /\ A \notin promoted_to_plasma_

\* C12: no callback waits in object_async_get_requests_ under an id that is
\* in objects_.
C12_NoAsyncWaiterOfStoredId ==
  \A id \in DOMAIN objects_ :
    MapGet(object_async_get_requests_, id, <<>>) = <<>>

\* C12, witness: A is in objects_, put by a Put that took two waiting
\* callbacks from the map and has not run them yet, while B still has a
\* callback waiting.
C12_Witness ==
  \E t \in DOMAIN th :
    /\ th[t].op = "Put" /\ th[t].pc = "put_callbacks" /\ th[t].id = A
    /\ Len(th[t].async_callbacks) = 1
    /\ MapGet(objects_, A, nullptr) = th[t].object
    /\ B \in DOMAIN object_async_get_requests_

C14_OneOutstandingRequest ==
  /\ OutstandingRequests \in {0, 1}
  /\ worker_request_pending_ <=> (OutstandingRequests = 1)

\* A second request is outstanding after a first was granted, while a push
\* is in flight and a task is still queued.
C14_Witness ==
  /\ OutstandingRequests = 1
  /\ Cardinality(LeaseCalls("granted")) >= 1
  /\ Cardinality(LeaseCalls("RequestWorkerLease")) >= 2
  /\ \E i \in DOMAIN push_log : i \notin push_replied
  /\ queued_tasks_ # <<>>

\* The tasks handed to client.PushNormalTask, in the order of the calls.
PushedTasks == [i \in DOMAIN push_log |-> push_log[i].task]

\* C15: each task is handed to client.PushNormalTask at most once; a task
\* that was dispatched is not in queued_tasks_ in any state in which the
\* submitter's mu_ is free, whether its push failed or not; and no task is
\* in queued_tasks_ twice.
C15_PushedAtMostOnce ==
  /\ NoDuplicates(PushedTasks)
  /\ NoDuplicates(queued_tasks_)
  /\ mu_holder = NoThread =>
       \A i \in DOMAIN push_log :
         \A j \in DOMAIN queued_tasks_ : queued_tasks_[j] # push_log[i].task

\* A push has failed at once, the reply callback of another has run to its
\* end and the worker of that push was returned, mu_ is free again and a
\* task is still queued.
C15_Witness ==
  /\ mu_holder = NoThread
  /\ queued_tasks_ # <<>>
  /\ \E i \in DOMAIN push_log : push_log[i].status # "OK"
  /\ \E x \in DOMAIN dth :
       /\ x.kind = "reply"
       /\ dth[x].pc = "finished"
       /\ \E k \in LeaseCalls("ReturnWorker") :
            lease_log[k].arg = push_log[x.n].addr.port

\* C16: the tasks handed to client.PushNormalTask, over all workers, are at
\* every moment a prefix of the tasks in the order in which they were
\* appended to queued_tasks_, which is the order in which the on_complete
\* callbacks fired; and queued_tasks_ holds the latest of them in that order.
C16_FifoDispatch ==
  /\ Len(PushedTasks) <= Len(queue_log)
  /\ PushedTasks = SubSeq(queue_log, 1, Len(PushedTasks))
  /\ Len(queued_tasks_) <= Len(queue_log)
  /\ queued_tasks_ =
       SubSeq(queue_log, Len(queue_log) - Len(queued_tasks_) + 1, Len(queue_log))

\* All tasks were dispatched, to more than one worker, and were queued in an
\* order that is not the order 1, 2, .. of the SubmitTask calls.
C16_Witness ==
  /\ Len(PushedTasks) = NTasks
  /\ \E i, j \in DOMAIN push_log : push_log[i].addr # push_log[j].addr
  /\ \E i, j \in DOMAIN queue_log : i < j /\ queue_log[i] > queue_log[j]

\* The ReturnWorker calls with a port in a log of the lease client.
ReturnWorkerCalls(log, port) ==
  Cardinality({i \in DOMAIN log : log[i].op = "ReturnWorker" /\ log[i].arg = port})

\* All ReturnWorker calls in a log of the lease client.
AllReturnWorkerCalls(log) ==
  Cardinality({i \in DOMAIN log : log[i].op = "ReturnWorker"})

\* C17: a call OnWorkerIdle(addr, was_error) does exactly one of two things.
\* If queued_tasks_ is empty or was_error is true it calls
\* ReturnWorker(addr.port) once, pushes nothing and leaves queued_tasks_ as
\* it is.  Otherwise it pushes the head of queued_tasks_ to addr, returns no
\* worker, and removes exactly the head: in the same locked section, or,
\* when the push failed at once, in the rest of the call, which has kept
\* mu_ and pushes and returns nothing more.
C17_OnWorkerIdleOneOfTwo ==
  [][\A x \in DOMAIN dth :
       /\ (dth[x].pc = "on_worker_idle" /\ dth'[x].pc # "on_worker_idle") =>
            IF queued_tasks_ = <<>> \/ dth[x].was_error
            THEN /\ ReturnWorkerCalls(lease_log', dth[x].addr.port) =
                      ReturnWorkerCalls(lease_log, dth[x].addr.port) + 1
                 /\ AllReturnWorkerCalls(lease_log') =
                      AllReturnWorkerCalls(lease_log) + 1
                 /\ queued_tasks_' = queued_tasks_
                 /\ push_log' = push_log
            ELSE /\ Len(push_log') = Len(push_log) + 1
                 /\ SubSeq(push_log', 1, Len(push_log)) = push_log
                 /\ push_log'[Len(push_log')].addr = dth[x].addr
                 /\ push_log'[Len(push_log')].task = Head(queued_tasks_)
                 /\ AllReturnWorkerCalls(lease_log') = AllReturnWorkerCalls(lease_log)
                 /\ IF dth'[x].in_push
                    THEN queued_tasks_' = queued_tasks_ /\ mu_holder' = x
                    ELSE queued_tasks_' = Tail(queued_tasks_)
       /\ (dth[x].pc = "on_worker_idle_rest" /\ dth'[x].pc # "on_worker_idle_rest") =>
            /\ queued_tasks_' = Tail(queued_tasks_)
            /\ push_log[Len(push_log)].task = Head(queued_tasks_)
            /\ push_log' = push_log
            /\ AllReturnWorkerCalls(lease_log') = AllReturnWorkerCalls(lease_log)
       /\ (dth[x].in_push /\ dth'[x].in_push) =>
            /\ queued_tasks_' = queued_tasks_
            /\ push_log' = push_log
            /\ AllReturnWorkerCalls(lease_log') = AllReturnWorkerCalls(lease_log)
    ]_vars

\* Both cases have happened: tasks were pushed, one push completed with an
\* error, and the OnWorkerIdle of its reply callback has returned the worker
\* although a task is queued.
C17_Witness ==
  /\ Len(push_log) >= 2
  /\ queued_tasks_ # <<>>
  /\ \E x \in DOMAIN dth :
       /\ x.kind = "reply"
       /\ dth[x].was_error
       /\ dth[x].pc = "put"
       /\ lease_log[Len(lease_log)] =
            LeaseCall("ReturnWorker", dth[x].addr.port, TRUE)

\* The reply callbacks that were invoked with a status that is not OK.
FailedReplies == {x \in DOMAIN dth : x.kind = "reply" /\ dth[x].status # "OK"}

\* The return ids of the task of a push.
ReturnIds(i) ==
  {ForTaskReturn(push_log[i].task, k) : k \in 1..NumReturns(push_log[i].task)}

\* The error object of a task that failed.
ErrorObject == RayObject(NoData, WORKER_DIED)

\* The resolver of a task has called GetAsync for id and did not find the
\* object in the store at that call.
GetAsyncCalled(task, id) ==
  /\ SubmitThread(task) \in DOMAIN dth
  /\ id \in LocalDependencies(TaskArgs(task))
  /\ LET rec == dth[SubmitThread(task)]
     IN  /\ rec.pc # "aborted"
         /\ \A k \in DOMAIN rec.ids : rec.ids[k] # id
         /\ ~(rec.pc = "callback" /\ rec.cb.obj_id = id)

\* The grants of a worker in the log of the lease client.
Grants(log, port) ==
  Cardinality({i \in DOMAIN log : log[i].op = "granted" /\ log[i].arg = port})

\* What holds once the reply callback x, invoked with an error, has
\* returned: under every return id of the task the store holds the error
\* object, no callback waits for the id any more, every callback invoked for
\* the id was invoked with the error object, and every resolver that had
\* called GetAsync for the id was called back.
FailedReplyDone(x) ==
  \A id \in ReturnIds(x.n) :
    /\ MapGet(objects_, id, nullptr) = ErrorObject
    /\ MapGet(object_async_get_requests_, id, <<>>) = <<>>
    /\ \A k \in DOMAIN cb_log :
         cb_log[k].cb.obj_id = id => cb_log[k].obj = ErrorObject
    /\ \A task \in TaskIds :
         GetAsyncCalled(task, id) =>
           \E k \in DOMAIN cb_log : cb_log[k].cb = ResolverCallback(task, id)

DependencyFree == {task \in TaskIds : LocalDependencies(TaskArgs(task)) = {}}

\* The pushes that were accepted and whose reply callback was not invoked.
InFlight == {i \in DOMAIN push_log : push_log[i].status = "OK" /\ i \notin push_replied}

\* The RequestWorkerLease calls in a log of the lease client.
Requests(log) ==
  Cardinality({i \in DOMAIN log : log[i].op = "RequestWorkerLease"})

\* All grants in a log of the lease client.
AllGrants(log) == Cardinality({i \in DOMAIN log : log[i].op = "granted"})

\* C19 as the claim has it: once the tasks without dependencies are all
\* queued, no step that leaves one lease granted and a push in flight issues
\* a RequestWorkerLease.
C19_NoRequestWhileInFlight ==
  [][(/\ DependencyFree \subseteq SeqToSet(queue_log)
      /\ AllGrants(lease_log') = 1
      /\ InFlight' # {})
     => Requests(lease_log') = Requests(lease_log)]_vars

\* C19, amended: a call of OnWorkerIdle that finds a task queued and no error
\* pushes the head of the queue to its worker and, in the same locked
\* section, while that push is in flight, issues one RequestWorkerLease if
\* tasks are still queued and no request is pending, and none otherwise.  No
\* step issues more than one request, and none is issued while one is
\* pending.
C19_RequestAtDispatch ==
  [][/\ \A x \in DOMAIN dth :
          (/\ dth[x].pc = "on_worker_idle"
           /\ dth'[x].pc # "on_worker_idle"
           /\ ~dth[x].was_error
           /\ queued_tasks_ # <<>>
           /\ ~dth'[x].in_push) =>
             /\ Len(push_log') = Len(push_log) + 1
             /\ push_log'[Len(push_log')].addr = dth[x].addr
             /\ push_log'[Len(push_log')].task = Head(queued_tasks_)
             /\ Len(push_log') \in InFlight'
             /\ Requests(lease_log') =
                  Requests(lease_log) +
                  (IF Tail(queued_tasks_) # <<>> /\ ~worker_request_pending_
                   THEN 1 ELSE 0)
     /\ Requests(lease_log') <= Requests(lease_log) + 1
     /\ Requests(lease_log') > Requests(lease_log) =>
          ~worker_request_pending_ /\ worker_request_pending_'
    ]_vars

\* The tasks without dependencies were queued, one lease was granted, and
\* its OnWorkerIdle has pushed the first task and requested a second lease
\* while that push is in flight.
C19_Witness ==
  /\ DependencyFree \subseteq SeqToSet(queue_log)
  /\ Len(push_log) = 1
  /\ InFlight = {1}
  /\ queued_tasks_ # <<>>
  /\ Len(lease_log) = 3
  /\ lease_log[1].op = "RequestWorkerLease"
  /\ lease_log[2].op = "granted"
  /\ lease_log[3] = LeaseCall("RequestWorkerLease", Head(queued_tasks_), TRUE)

\* The invocations of the on_complete of a task so far: those that have
\* queued the task, and those that wait for the submitter's mu_.
Invocations(task) ==
  Cardinality({i \in DOMAIN queue_log : queue_log[i] = task}) +
  Cardinality({x \in DOMAIN dth :
                 dth[x].pc = "on_complete" /\ dth[x].cb.task = task})

\* The dependencies of a task that are still pending.
Pending(task) ==
  IF task \in DOMAIN task_state THEN task_state[task].local_dependencies ELSE {}

\* C20: the on_complete of a ResolveDependencies call is invoked at most
\* once.  For a task that references no direct-call id the call itself
\* invokes it, on the caller's thread.  For any other task it is invoked in
\* the step in which a callback erases the last pending dependency, by the
\* thread that runs this callback, and in no other step; every direct-call
\* id the task referenced has then been delivered to its callback and the
\* message references none of them any more.
C20_OnCompleteOnce ==
  [][\A task \in TaskIds :
       /\ Invocations(task)' <= 1
       /\ task \in DependencyFree =>
            /\ (SubmitThread(task) \in DOMAIN dth') => Invocations(task)' = 1
            /\ (SubmitThread(task) \notin DOMAIN dth /\
                SubmitThread(task) \in DOMAIN dth') =>
                  /\ dth'[SubmitThread(task)].pc = "on_complete"
                  /\ dth'[SubmitThread(task)].cb.task = task
       /\ task \notin DependencyFree =>
            /\ (Invocations(task)' > Invocations(task)) <=>
                 (Pending(task) # {} /\ Pending(task)' = {})
            /\ (Invocations(task)' > Invocations(task)) =>
                 /\ LocalDependencies(task_message'[task]) = {}
                 /\ \A id \in LocalDependencies(TaskArgs(task)) :
                      \E k \in DOMAIN cb_log' :
                        cb_log'[k].cb = ResolverCallback(task, id)
                 /\ \E x \in DOMAIN dth :
                      /\ dth[x].pc \in {"callback", "put_callbacks"}
                      /\ dth'[x].pc = "on_complete"
                      /\ dth'[x].cb.task = task
                      /\ Pending(task) = {dth'[x].cb.obj_id}
    ]_vars

\* The tasks without dependencies were queued by their callers, and the
\* on_complete of task 2 was invoked by the reply callback of a push, whose
\* Put delivered the last of its two dependencies.
C20_Witness ==
  /\ \A task \in DependencyFree : \E i \in DOMAIN queue_log : queue_log[i] = task
  /\ Pending(2) = {}
  /\ Invocations(2) = 1
  /\ Cardinality({k \in DOMAIN cb_log : cb_log[k].cb.task = 2}) = 2
  /\ \E x \in DOMAIN dth :
       /\ x.kind = "reply"
       /\ dth[x].pc = "on_complete"
       /\ dth[x].ret = "put_callbacks"
       /\ dth[x].cb.task = 2

\* The slot references one id, of the direct-call transport.
ReferencesDirect(slot) ==
  Len(slot.object_ids) = 1 /\ IsDirectCallType(slot.object_ids[1])

\* The slot now is what the claim has for a slot that referenced the
\* direct-call id X when value was delivered for X.
SlotInlined(was, now, value) ==
  IF IsInPlasmaError(value)
  THEN /\ now.object_ids = <<WithTransportType(was.object_ids[1], RAYLET)>>
       /\ now.data = NoData
       /\ now.metadata = None
  ELSE /\ now.object_ids = <<>>
       /\ now.data = value.data
       /\ now.metadata = value.metadata

\* The message of a task with the arguments was, after its dependencies were
\* delivered: every slot that referenced a direct-call id holds the value
\* that the callback of the id was invoked with, the other slots are as they
\* were.
MessageInlined(task, was, now) ==
  /\ DOMAIN now = DOMAIN was
  /\ \A i \in DOMAIN was :
       IF ReferencesDirect(was[i])
       THEN /\ ~ReferencesDirect(now[i])
            /\ \E k \in DOMAIN cb_log :
                 /\ cb_log[k].cb = ResolverCallback(task, was[i].object_ids[1])
                 /\ SlotInlined(was[i], now[i], cb_log[k].obj)
       ELSE now[i] = was[i]

\* C21: when the on_complete of a task has fired, no argument slot of its
\* message holds a direct-call id: a slot that referenced the direct-call id
\* X holds the id X of the raylet transport and no inlined bytes if the
\* value delivered for X is the in-plasma marker, and otherwise no id and
\* the data and metadata of the value delivered; the other slots are as
\* they were when the task was handed to the resolver.
C21_InlinedWhenComplete ==
  \A task \in DOMAIN task_message :
    Invocations(task) >= 1 =>
      /\ LocalDependencies(task_message[task]) = {}
      /\ task \in DOMAIN task_state =>
           MessageInlined(task, task_state[task].task, task_message[task])

\* The on_complete of a task has fired that referenced A and B, after the
\* in-plasma marker was delivered for one and an object with data for the
\* other.
C21_Witness ==
  /\ Invocations(ResolveTask) = 1
  /\ ResolveTask \in DOMAIN task_state
  /\ \E k \in DOMAIN cb_log : IsInPlasmaError(cb_log[k].obj)
  /\ \E k \in DOMAIN cb_log : HasData(cb_log[k].obj)
  /\ Len(task_message[ResolveTask]) = 2

\* C22: no mutex of a component is held across outbound work: the store's
\* mu_ is not held when an async-get callback or store_in_plasma_ is
\* invoked, the resolver's mu_ is not held when on_complete is invoked, and
\* the submitter's mu_ is not held when client.PushNormalTask,
\* RequestWorkerLease or ReturnWorker is called.
C22_NoMutexAcrossOutboundWork ==
  /\ \A k \in DOMAIN cb_log : ~cb_log[k].locked
  /\ \A k \in DOMAIN plasma_log : ~plasma_log[k].locked
  /\ \A k \in DOMAIN push_log : ~push_log[k].locked
  /\ \A k \in DOMAIN lease_log :
       lease_log[k].op \in {"RequestWorkerLease", "ReturnWorker"} =>
         ~lease_log[k].locked

\* A worker that was granted has not yet run its OnWorkerIdle.
JustGranted ==
  \E x \in DOMAIN dth : x.kind = "grant" /\ dth[x].pc = "on_worker_idle"

\* The task was handed to client.PushNormalTask.
Pushed(task) == \E i \in DOMAIN push_log : push_log[i].task = task

\* The lease service has no worker left to grant.
NoWorkerLeft == \A addr \in Workers : Leased(addr)

\* C23: a worker always shows up for a queued task.  In every state in
\* which the submitter's mu_ is free and queued_tasks_ is not empty, a lease
\* request is pending or a worker that was just granted has not yet run its
\* OnWorkerIdle; and every task in queued_tasks_ is pushed in the end, as
\* long as the process lives and the lease service has a worker to grant.
C23_WorkerShowsUp ==
  /\ []((mu_holder = NoThread /\ queued_tasks_ # <<>>) =>
          (worker_request_pending_ \/ JustGranted))
  /\ \A task \in TaskIds :
       (\E i \in DOMAIN queued_tasks_ : queued_tasks_[i] = task)
         ~> (Pushed(task) \/ aborted \/ NoWorkerLeft)

\* The slots of a message whose first id is id.
SlotsOf(id, args) ==
  {i \in DOMAIN args : Len(args[i].object_ids) > 0 /\ args[i].object_ids[1] = id}

\* This step calls DoInlineObjectValue for id: in a callback of the
\* resolver, or directly.
InlinedNow(id) ==
  \/ /\ Len(cb_log') > Len(cb_log)
     /\ cb_log'[Len(cb_log')].cb.obj_id = id
  \/ /\ InlineThread \notin DOMAIN dth
     /\ InlineThread \in DOMAIN dth'
     /\ dth'[InlineThread].cb.obj_id = id

\* The value this step calls DoInlineObjectValue with.
InlinedValue ==
  IF Len(cb_log') > Len(cb_log)
  THEN cb_log'[Len(cb_log')].obj
  ELSE dth'[InlineThread].cb_obj

\* C24 as the claim has it: the process aborts whenever the id delivered is
\* not the id of exactly one argument slot, be it of none or of several.
C24_AbortsUnlessOneSlot ==
  [][\A id \in Ids :
       (InlinedNow(id) /\
        Cardinality(SlotsOf(id, task_message[ResolveTask])) # 1) => aborted'
    ]_vars

\* C24, amended: the process aborts when the id delivered is the id of no
\* argument slot, and the message stays as it is; when it is the id of one
\* slot or of several, the process does not abort and the value is inlined
\* into every one of these slots.
C24_AbortsIfNoSlot ==
  [][\A id \in Ids :
       InlinedNow(id) =>
         IF SlotsOf(id, task_message[ResolveTask]) = {}
         THEN aborted' /\ task_message' = task_message
         ELSE /\ ~aborted'
              /\ SlotsOf(id, task_message'[ResolveTask]) = {}
              /\ \A i \in DOMAIN task_message[ResolveTask] :
                   IF i \in SlotsOf(id, task_message[ResolveTask])
                   THEN SlotInlined(task_message[ResolveTask][i],
                                    task_message'[ResolveTask][i], InlinedValue)
                   ELSE task_message'[ResolveTask][i] =
                        task_message[ResolveTask][i]
    ]_vars

\* A task whose two slots both reference A was resolved: one callback was
\* invoked for A, both slots hold the data delivered, and on_complete has
\* fired.
C24_Witness ==
  /\ ResolveTask \in DOMAIN task_state
  /\ task_state[ResolveTask].task =
       <<Arg(<<A>>, NoData, None), Arg(<<A>>, NoData, None)>>
  /\ Invocations(ResolveTask) = 1
  /\ Len(cb_log) = 1
  /\ HasData(cb_log[1].obj)
  /\ \A i \in 1..2 :
       /\ task_message[ResolveTask][i].object_ids = <<>>
       /\ task_message[ResolveTask][i].data = cb_log[1].obj.data

\* C25: the ready flag of a GetRequest is monotone: once it is true it stays
\* true, and the objects the request holds do not change any more, whatever
\* is Set on it afterwards; and a request that requires at least one object
\* never holds more objects than it requires and is ready exactly when it
\* holds as many.
C25_ReadyMonotone ==
  /\ [][\A r \in DOMAIN get_request \cap DOMAIN get_request' :
          get_request[r].is_ready_ =>
            /\ get_request'[r].is_ready_
            /\ get_request'[r].objects_ = get_request[r].objects_]_vars
  /\ [](\A r \in DOMAIN get_request :
          get_request[r].num_objects_ >= 1 =>
            /\ Cardinality(DOMAIN get_request[r].objects_) <=
                 get_request[r].num_objects_
            /\ get_request[r].is_ready_ <=>
                 (Cardinality(DOMAIN get_request[r].objects_) =
                  get_request[r].num_objects_))

\* A GetRequest for A and B that requires one object became ready with the
\* object of B, and A was put afterwards: the request is still registered
\* under A, A is in the store, and the request holds B alone.
C25_Witness ==
  \E r \in DOMAIN get_request :
    /\ get_request[r].object_ids_ = {A, B}
    /\ get_request[r].num_objects_ = 1
    /\ get_request[r].is_ready_
    /\ DOMAIN get_request[r].objects_ = {B}
    /\ r \in Registered(A)
    /\ A \in DOMAIN objects_
    /\ ~get_request[r].remove_after_get_

\* The positions of the list of the Get of thread t that its walk under the
\* lock fills: the positions whose id is in objects_ and that fewer than
\* num_objects such positions precede.
WalkFills(t, i) ==
  /\ th'[t].ids[i] \in DOMAIN objects_
  /\ Cardinality({j \in 1..(i - 1) : th'[t].ids[j] \in DOMAIN objects_}) < th'[t].num

\* The ids whose objects the section under the lock wrote into results.
WalkReturned(t) ==
  {th'[t].ids[i] : i \in {j \in DOMAIN th'[t].ids : th'[t].results[j] # nullptr}}

\* C26: the section of Get under the lock removes from objects_ exactly the
\* ids whose objects it wrote into results when remove_after_get is true,
\* and nothing when it is false; an id that is in objects_ but was not
\* returned because num_objects was reached stays; and the removal comes
\* after the whole walk: every position the walk reaches holds the object
\* objects_ had for its id when Get was called, a second position of an id
\* already returned included.
C26_GetRemovesReturned ==
  [][\A t \in Threads :
       GetStep(t) =>
         /\ \A i \in DOMAIN th'[t].ids :
              th'[t].results[i] =
                IF WalkFills(t, i) THEN objects_[th'[t].ids[i]] ELSE nullptr
         /\ DOMAIN objects_' =
              IF th'[t].remove THEN DOMAIN objects_ \ WalkReturned(t)
                               ELSE DOMAIN objects_
         /\ \A k \in DOMAIN objects_' : objects_'[k] = objects_[k]]_vars

\* A Get of <<A, A, B>> for two objects with remove_after_get, called when A
\* and B were in objects_, has just run its section under the lock: both
\* positions of A are filled, A is gone, and B, not returned, is still there.
C26_Witness ==
  \E t \in Threads :
    /\ th[t].op = "Get" /\ th[t].pc = "done"
    /\ th[t].ids = <<A, A, B>> /\ th[t].num = 2 /\ th[t].remove
    /\ th[t].results[1] # nullptr
    /\ th[t].results[2] = th[t].results[1]
    /\ th[t].results[3] = nullptr
    /\ A \notin DOMAIN objects_
    /\ B \in DOMAIN objects_

\* The pushes to the worker at addr that are in flight.
InFlightTo(addr) == {i \in InFlight : push_log[i].addr = addr}

\* A thread is inside OnWorkerIdle for the worker at addr.
InOnWorkerIdle(addr) ==
  \E x \in DOMAIN dth :
    /\ dth[x].addr = addr
    /\ dth[x].pc = "on_worker_idle" \/ dth[x].in_push

\* C27: no leased worker is leaked or used twice: a worker is never returned
\* more often than it was granted and never has two pushes in flight, and
\* whenever no thread is inside OnWorkerIdle for it, a worker that was
\* granted and not returned since is busy with exactly one push in flight,
\* and a worker that was returned has none.
C27_BusyOrReturned ==
  \A addr \in Workers :
    /\ ReturnWorkerCalls(lease_log, addr.port) <= Grants(lease_log, addr.port)
    /\ Cardinality(InFlightTo(addr)) <= 1
    /\ ~InOnWorkerIdle(addr) =>
         (Leased(addr) <=> Cardinality(InFlightTo(addr)) = 1)

\* C28: no thread is about to lock the submitter's mu_ in on_complete
\* (SubmitTask, line 86) while it holds mu_ itself, as the thread of an
\* OnWorkerIdle whose push failed at once does when the Puts of
\* TreatTaskAsFailed run the resolver callback that completes a task.
C28_NoSelfDeadlock ==
  \A x \in DOMAIN dth : ~(dth[x].pc = "on_complete" /\ mu_holder = x)
====
